---------------------------- MODULE Spec2Model ----------------------------
(***************************************************************************)
(* The connection session task of labgrid-ui (crates/ui/src/connection.rs) *)
(* as a state machine: the task started by kickoff(), the command channel  *)
(* it reads, the event channel it writes, the connect attempt it races     *)
(* against a timeout, and the duplex client stream it owns while           *)
(* Connected.  The senders of commands, the coordinator (RPC results,      *)
(* inbound frames) and the timers are the environment.                     *)
(*                                                                         *)
(* A Rust String is a sequence of one-character strings; a string literal  *)
(* of the source is a one-element sequence holding the literal.            *)
(***************************************************************************)
EXTENDS Integers, Sequences, FiniteSets, TLC

\* ------------------------------------------------------------- bounds
\* Capacity of the command channel in the model (the source's CHANNEL_SIZE
\* is 100; a full channel behaves the same at any capacity).
MaxQueue == 2
\* Number of inputs the environment gives the task in one behaviour:
\* commands submitted, items of inbound halves, ticks of the interval.
MaxInputs == 2
\* Number of gRPC clients LabgridGrpcClient::new hands out in one behaviour.
MaxConnects == 2
\* Number of updates in one inbound frame.
MaxUpdates == 2
\* Number of actions the user takes in the GUI in one behaviour.
MaxClicks == 3
\* Longest array of a wire or local MapValue among the inputs
MaxArray == 2
\* Calls of SyncId::next on one counter
MaxSyncCalls == 5

\* ------------------------------------------------------------ strings
Whitespace == {" ", "\t", "\n"}

RECURSIVE TrimStart(_)
TrimStart(s) ==
    IF s = <<>> THEN <<>>
    ELSE IF Head(s) \in Whitespace THEN TrimStart(Tail(s)) ELSE s

RECURSIVE TrimEnd(_)
TrimEnd(s) ==
    IF s = <<>> THEN <<>>
    ELSE IF s[Len(s)] \in Whitespace THEN TrimEnd(SubSeq(s, 1, Len(s) - 1)) ELSE s

\* str::trim
Trim(s) == TrimEnd(TrimStart(s))

\* str::is_empty
IsEmpty(s) == Len(s) = 0

\* the source's `x.trim().is_empty()`
IsBlankNoTrim(s) == IsEmpty(s)
IsBlank(s) == IsEmpty(Trim(s))

\* The strings a command field is drawn from: the empty string, a
\* whitespace-only string and a plain one; an address may also be padded.
Strings == {<<>>, <<" ">>, <<"a">>}
Addresses == Strings \cup {<<" ", "b">>}

\* ------------------------------------------------------------ commands
\* enum ConnectionMsg
Msg0(t) == [type |-> t]
Msg1(t, a) == [type |-> t, f1 |-> a]
Msg2(t, a, b) == [type |-> t, f1 |-> a, f2 |-> b]
Msg3(t, a, b, c) == [type |-> t, f1 |-> a, f2 |-> b, f3 |-> c]

ConnectionMsg ==
    {Msg1("Connect", a) : a \in Addresses}
    \cup {Msg0(t) : t \in {"Disconnect", "Sync", "GetPlaces", "GetReservations"}}
    \cup {Msg1(t, n) : t \in {"AcquirePlace", "ReleasePlace", "AddPlace", "DeletePlace",
                              "CancelReservation"}, n \in Strings}
    \cup {Msg2(t, p, x) : t \in {"AddPlaceMatch", "DeletePlaceMatch", "DeletePlaceTag"},
                          p \in Strings, x \in Strings}
    \cup {Msg3("AddPlaceTag", p, k, v) : p \in Strings, k \in Strings, v \in Strings}

NoMsg == Msg0("None")

\* -------------------------------------------------------------- events
\* struct ErrorReport; Option<T> is a sequence of length at most one.
ErrorReport(c, s, d) == [criticality |-> c, short |-> s, detailed |-> d]
None == <<>>
Some(x) == <<x>>

\* enum ConnectionEvent
ReceiveReady == [type |-> "ReceiveReady"]
ConnectedEv(address) == [type |-> "Connected", address |-> address]
DisconnectedEv(error) == [type |-> "Disconnected", error |-> error]
NonCriticalErrorEv(error) == [type |-> "NonCriticalError", error |-> error]
PlacesEv(l) == [type |-> "Places", list |-> l]
ReservationsEv(l) == [type |-> "Reservations", list |-> l]
UpdateEv(u) == [type |-> u.kind, value |-> u.value]

InvalidInput(detailed) ==
    ErrorReport("NonCritical", <<"connection-msg-invalid-input">>, detailed)
MustNotBeEmpty == <<"Input must not be empty">>

\* --------------------------------------------------------------- state
\* enum State.  The client, the outbound sender and the inbound stream of
\* one connect() call carry that call's client number.
\* `stream_done` is the flag of the Fuse around the inbound half: set once
\* the stream has ended.  `sender_closed` is set once a send on the
\* outbound half has found its receiver gone.
Disconnected ==
    [tag |-> "Disconnected", client |-> 0, client_in_sender |-> 0,
     client_out_stream |-> 0, sync_id |-> 0, stream_done |-> FALSE,
     sender_closed |-> FALSE]
Connected(c, sid) ==
    [tag |-> "Connected", client |-> c, client_in_sender |-> c,
     client_out_stream |-> c, sync_id |-> sid, stream_done |-> FALSE,
     sender_closed |-> FALSE]

\* u64::MAX stands at the largest integer TLC holds: saturating_add stops
\* at the top of the counter's range, wherever that top is.
U64Max == 2147483647

\* SyncId::default
SyncIdDefault == 1
SyncIdNextStuck(id) == [id |-> id, counter |-> id]
\* A wrapping_add in place of the saturating_add
SyncIdNextWrapping(id) == [id |-> id, counter |-> IF id >= U64Max THEN 0 ELSE id + 1]
\* SyncId::next: the id handed out and the counter afterwards
SyncIdNext(id) == [id |-> id, counter |-> IF id >= U64Max THEN U64Max ELSE id + 1]

VARIABLES
    pc,        \* where the session task is in kickoff's body
    state,     \* kickoff's `state`
    pending,   \* the connect() call in flight: its address and what it holds
    queue,     \* the command channel (sender, receiver)
    output,    \* every event sent on the event channel, in order
    step,      \* the loop iteration in progress or last finished
    sent,      \* per client number, the frames enqueued on its outbound half
    received,  \* per client number, the items read from its inbound half
    nextClient,\* the number of the next gRPC client
    nInputs,   \* inputs of the environment so far
    app,       \* the GUI shell (struct App): what of it bears on the session
    conversion \* a conversion or comparison of grpc::types: input and result

vars == <<pc, state, pending, queue, output, step, sent, received, nextClient, nInputs,
          app, conversion>>

NoPending == [address |-> <<>>, client |-> 0, stream |-> 0, sync_id |-> 0]

\* One iteration of the loop: what it services, the state it started in,
\* the length of `output` when it started, the facade calls it made, and
\* what the calls of a command or a tick returned (the Result the `match`
\* after each call looks at).
Step(kind, msg, pre, mark) ==
    [kind |-> kind, msg |-> msg, pre |-> pre, mark |-> mark, calls |-> <<>>,
     results |-> <<>>]

\* The events the iteration in `step` has emitted.
Emitted == SubSeq(output, step.mark + 1, Len(output))

Call(method, args) == [method |-> method, args |-> args]


\* ------------------------------------------------------ facade results
\* enum GrpcClientError
TonicTransport == [kind |-> "TonicTransport", code |-> "-"]
MsgConversion == [kind |-> "MsgConversion", code |-> "-"]
TonicStatus(code) == [kind |-> "TonicStatus", code |-> code]

\* tonic::Code values the classifier tells apart, and one of the others
StatusCodes == {"Ok", "Unavailable", "DeadlineExceeded", "InvalidArgument"}

Ok(v) == [ok |-> TRUE, value |-> v, error |-> TonicTransport]
Err(e) == [ok |-> FALSE, value |-> <<>>, error |-> e]
NoResult == Ok(<<>>)

\* `{error:?}`: a non-empty rendering of the error
Debug(e) == IF e.kind = "TonicStatus" THEN <<e.kind, e.code>> ELSE <<e.kind>>

\* What a unary call without a converted response can return
\* (add_place, delete_place, set_place_tags, add_place_match,
\* delete_place_match, acquire_place, release_place, cancel_reservation).
UnitResults == {Ok(<<>>)} \cup {Err(TonicStatus(c)) : c \in StatusCodes}

\* What get_places / get_reservations can return: the converted list, a
\* status, or a conversion error of one element.
Lists == {<<>>, <<"x">>}
ListResults ==
    {Ok(l) : l \in Lists} \cup {Err(TonicStatus(c)) : c \in StatusCodes}
    \cup {Err(MsgConversion)}

\* ------------------------------------------------- handle_grpc_client_error
\* Classifiers that differ from the source's in one arm each.
ClassifyAs(st, error, fatal, silent) ==
    IF silent THEN [state |-> st, events |-> <<>>]
    ELSE IF fatal
    THEN [state |-> Disconnected,
          events |-> <<DisconnectedEv(Some(ErrorReport("Critical",
                        <<"error">>, Debug(error))))>>]
    ELSE [state |-> st,
          events |-> <<NonCriticalErrorEv(ErrorReport("NonCritical",
                        <<"error">>, Debug(error)))>>]
\* every error but the status Ok taken for fatal, conversion errors too
HandleGrpcClientErrorAllFatal(st, error) ==
    ClassifyAs(st, error, TRUE, error.kind = "TonicStatus" /\ error.code = "Ok")
\* Unavailable and DeadlineExceeded taken for recoverable
HandleGrpcClientErrorLenient(st, error) ==
    ClassifyAs(st, error, error.kind = "TonicTransport",
               error.kind = "TonicStatus" /\ error.code = "Ok")
\* every status but Ok taken for fatal
HandleGrpcClientErrorStrict(st, error) ==
    ClassifyAs(st, error, error.kind # "MsgConversion",
               error.kind = "TonicStatus" /\ error.code = "Ok")
\* the status Ok reported like any other status
HandleGrpcClientErrorOkReported(st, error) ==
    ClassifyAs(st, error,
               error.kind = "TonicTransport"
               \/ (error.kind = "TonicStatus"
                   /\ error.code \in {"Unavailable", "DeadlineExceeded"}),
               FALSE)

\* The state afterwards and the events sent, for the state `st` the loop
\* iteration holds.
HandleGrpcClientError(st, error) ==
    CASE error.kind = "TonicTransport" ->
           [state |-> Disconnected,
            events |-> <<DisconnectedEv(Some(ErrorReport("Critical",
                          <<"Transport failure">>, Debug(error))))>>]
      [] error.kind = "MsgConversion" ->
           [state |-> st,
            events |-> <<NonCriticalErrorEv(ErrorReport("NonCritical",
                          <<"Message conversion">>, Debug(error)))>>]
      [] error.kind = "TonicStatus" /\ error.code = "Ok" ->
           [state |-> st, events |-> <<>>]
      [] error.kind = "TonicStatus" /\ error.code \in {"Unavailable", "DeadlineExceeded"} ->
           [state |-> Disconnected,
            events |-> <<DisconnectedEv(Some(ErrorReport("Critical",
                          <<"Non-recoverable tonic error status">>, Debug(error))))>>]
      [] OTHER ->
           [state |-> st,
            events |-> <<NonCriticalErrorEv(ErrorReport("NonCritical",
                          <<"Tonic error status">>, Debug(error)))>>]

\* ------------------------------------------------------------ liveness of handles
\* A handle lives as long as a variable of the task holds it: the state, or
\* the connect() call in flight and the tuple it returned.
LiveClients ==
    (IF state.tag = "Connected" THEN {state.client} ELSE {})
    \cup (IF pending.client # 0 THEN {pending.client} ELSE {})
LiveStreams ==
    (IF state.tag = "Connected" THEN {state.client_out_stream} ELSE {})
    \cup (IF pending.stream # 0 THEN {pending.stream} ELSE {})

\* ------------------------------------------------------------ the GUI shell
\* struct App as App::new leaves it: the state NotConnected, no sender
\* yet.  `seen` is the number of events of `output` that update() has
\* handled, `clicks` the number of user actions so far.  The shell acts in
\* AppSpec only; in the other specifications any holder of the sender may
\* send any command and `app` stays as it is.
AppNew ==
    [state |-> "NotConnected", connection_sender |-> FALSE, seen |-> 0, clicks |-> 0,
     places |-> <<>>, resources |-> <<>>, reservations |-> <<>>]

\* No conversion under way: the session specifications leave `conversion` so.
NoConv == [op |-> "none"]

\* ---------------------------------------------------------------- Init
Init ==
    /\ pc = "start"
    /\ state = Disconnected
    /\ pending = NoPending
    /\ queue = <<>>
    /\ output = <<>>
    /\ step = Step("start", NoMsg, Disconnected, 0)
    /\ sent = [c \in {} |-> <<>>]
    /\ received = [c \in {} |-> <<>>]
    /\ nextClient = 1
    /\ nInputs = 0
    /\ app = AppNew
    /\ conversion = NoConv

KickoffStartSilent ==
    /\ pc = "start"
    /\ pc' = "select"
    /\ UNCHANGED <<state, pending, queue, output, step, sent, received, nextClient, nInputs>>
    /\ UNCHANGED <<app, conversion>>

\* kickoff, up to the loop: the command channel is created and
\* ReceiveReady, carrying its sender, is sent.
KickoffStart ==
    /\ pc = "start"
    /\ output' = Append(output, ReceiveReady)
    /\ pc' = "select"
    /\ UNCHANGED <<state, pending, queue, step, sent, received, nextClient, nInputs>>
    /\ UNCHANGED <<app, conversion>>

\* ConnectionSender::send: try_send, an error (a full channel) is logged
\* and the message is dropped.  The sender exists once ReceiveReady is out.
\* Any holder of the sender may send any command at any time; the GUI
\* shell (app.rs) is one such holder, and the only one in AppSpec.
\* A channel that hands out the newest command first
TrySendFront(msg) == IF Len(queue) < MaxQueue THEN <<msg>> \o queue ELSE queue
TrySend(msg) == IF Len(queue) < MaxQueue THEN Append(queue, msg) ELSE queue

Send ==
    /\ pc # "start"
    /\ nInputs < MaxInputs
    /\ \E msg \in ConnectionMsg : queue' = TrySend(msg)
    /\ nInputs' = nInputs + 1
    /\ UNCHANGED <<pc, state, pending, output, step, sent, received, nextClient>>
    /\ UNCHANGED <<app, conversion>>


\* ------------------------------------------------------ the loop, Disconnected
\* Lines 171-246: the only branch of the select is the command channel.
\* A Connect with a blank address is answered at once; any other Connect
\* starts connect() under the timeout; every other command is dropped.
DisconnectedOtherCallsFacade(msg) ==
    IF msg.type = "GetReservations" THEN <<Call("get_reservations", <<>>)>> ELSE <<>>
\* The arm `_ => {}` (line 241): the facade calls made for a command that
\* is not Connect.
DisconnectedOther(msg) == <<>>

RecvDisconnected ==
    /\ pc = "select"
    /\ state.tag = "Disconnected"
    /\ queue # <<>>
    /\ LET msg == Head(queue) IN
       /\ queue' = Tail(queue)
       /\ step' = [Step("msg", msg, state, Len(output)) EXCEPT !.calls =
                     IF msg.type = "Connect" THEN <<>> ELSE DisconnectedOther(msg)]
       /\ IF msg.type = "Connect" /\ IsBlank(msg.f1)
          THEN /\ output' = Append(output,
                      DisconnectedEv(Some(InvalidInput(MustNotBeEmpty))))
               /\ state' = Disconnected
               /\ pc' = "select"
               /\ pending' = NoPending
          ELSE IF msg.type = "Connect"
          THEN /\ pc' = "connect_new"
               /\ pending' = [NoPending EXCEPT !.address = msg.f1]
               /\ UNCHANGED <<state, output>>
          ELSE UNCHANGED <<pc, state, pending, output>>
    /\ UNCHANGED <<sent, received, nextClient, nInputs>>
    /\ UNCHANGED <<app, conversion>>

\* ------------------------------------------------------------ connect()
ConnectingFailed(e) ==
    ErrorReport("Critical", <<"Connecting failed">>, Debug(e))
TimeoutReached ==
    ErrorReport("Critical", <<"Timeout reached while trying to connect">>, <<>>)

\* The frames connect() enqueues before it opens the stream (lines 665-693).
StartupDone == [type |-> "StartupDone", version |-> <<"1">>]
Subscribe(kind) == [type |-> "Subscribe", kind |-> kind, flag |-> TRUE]
SyncFrame(id) == [type |-> "Sync", id |-> id]
HandshakeSyncFirst(id) ==
    <<StartupDone, SyncFrame(id), Subscribe("AllPlaces"), Subscribe("AllResources")>>
Handshake(id) ==
    <<StartupDone, Subscribe("AllPlaces"), Subscribe("AllResources"), SyncFrame(id)>>

\* Where the state assignment after a failed attempt leaves the task
\* (lines 213, 237, 287, 310).
AfterFailedConnectKeep == state
AfterFailedConnect == Disconnected

\* connect() going on with the counter of the session it replaces
ConnectNewOkCarry ==
    /\ pc = "connect_new"
    /\ nextClient <= MaxConnects
    /\ LET c == nextClient
           n == SyncIdNext(IF state.tag = "Connected" THEN state.sync_id
                           ELSE SyncIdDefault)
       IN /\ pending' = [pending EXCEPT !.client = c, !.sync_id = n.counter]
          /\ sent' = [x \in DOMAIN sent \cup {c} |->
                        IF x = c THEN Handshake(n.id) ELSE sent[x]]
          /\ received' = [x \in DOMAIN received \cup {c} |->
                            IF x = c THEN <<>> ELSE received[x]]
          /\ step' = [step EXCEPT !.calls = Append(@, Call("new", <<pending.address>>))]
    /\ nextClient' = nextClient + 1
    /\ pc' = "connect_stream"
    /\ UNCHANGED <<state, queue, output, nInputs>>
    /\ UNCHANGED <<app, conversion>>

\* LabgridGrpcClient::new succeeded (line 660): the sender is created, the
\* four frames are enqueued, and client_stream is awaited.
ConnectNewOk ==
    /\ pc = "connect_new"
    /\ nextClient <= MaxConnects
    /\ LET c == nextClient
           n == SyncIdNext(SyncIdDefault)
       IN /\ pending' = [pending EXCEPT !.client = c, !.sync_id = n.counter]
          /\ sent' = [x \in DOMAIN sent \cup {c} |->
                        IF x = c THEN Handshake(n.id) ELSE sent[x]]
          /\ received' = [x \in DOMAIN received \cup {c} |->
                            IF x = c THEN <<>> ELSE received[x]]
          /\ step' = [step EXCEPT !.calls = Append(@, Call("new", <<pending.address>>))]
    /\ nextClient' = nextClient + 1
    /\ pc' = "connect_stream"
    /\ UNCHANGED <<state, queue, output, nInputs>>
    /\ UNCHANGED <<app, conversion>>

\* a connect() that tries again after a failure of new
ConnectNewErrRetry ==
    /\ pc = "connect_new"
    /\ step' = [step EXCEPT !.calls = Append(@, Call("new", <<pending.address>>))]
    /\ UNCHANGED <<pc, state, pending, output, queue, sent, received, nextClient, nInputs>>
    /\ UNCHANGED <<app, conversion>>

\* LabgridGrpcClient::new failed: connect() returns the error (line 660),
\* the branch at 201-215 / 277-289 reports it.
ConnectNewErr ==
    /\ pc = "connect_new"
    /\ step' = [step EXCEPT !.calls = Append(@, Call("new", <<pending.address>>))]
    /\ output' = Append(output, DisconnectedEv(Some(ConnectingFailed(TonicTransport))))
    /\ state' = AfterFailedConnect
    /\ pending' = NoPending
    /\ pc' = "select"
    /\ UNCHANGED <<queue, sent, received, nextClient, nInputs>>
    /\ UNCHANGED <<app, conversion>>

\* client_stream succeeded (line 696): connect() returns the client, the
\* sender, the inbound stream and the sync id.
ConnectStreamOk ==
    /\ pc = "connect_stream"
    /\ pending' = [pending EXCEPT !.stream = pending.client]
    /\ step' = [step EXCEPT !.calls = Append(@, Call("client_stream", <<>>))]
    /\ pc' = "connect_ok"
    /\ UNCHANGED <<state, queue, output, sent, received, nextClient, nInputs>>
    /\ UNCHANGED <<app, conversion>>

\* client_stream failed with a status (line 696).
ConnectStreamErr ==
    /\ pc = "connect_stream"
    /\ \E code \in StatusCodes \ {"Ok"} :
         output' = Append(output, DisconnectedEv(Some(ConnectingFailed(TonicStatus(code)))))
    /\ step' = [step EXCEPT !.calls = Append(@, Call("client_stream", <<>>))]
    /\ state' = AfterFailedConnect
    /\ pending' = NoPending
    /\ pc' = "select"
    /\ UNCHANGED <<queue, sent, received, nextClient, nInputs>>
    /\ UNCHANGED <<app, conversion>>

\* The sleep of CONNECT_TIMEOUT wins the tokio::select! (lines 225-238,
\* 299-311): the connect() future is dropped with what it holds.
ConnectTimeout ==
    /\ pc \in {"connect_new", "connect_stream"}
    /\ output' = Append(output, DisconnectedEv(Some(TimeoutReached)))
    /\ state' = AfterFailedConnect
    /\ pending' = NoPending
    /\ pc' = "select"
    /\ UNCHANGED <<queue, step, sent, received, nextClient, nInputs>>
    /\ UNCHANGED <<app, conversion>>

\* The state the task holds after a successful connect() (lines 218-223,
\* 292-297).
NewSessionKeepOld == IF state.tag = "Connected" THEN state
                     ELSE Connected(pending.client, pending.sync_id)
NewSession == Connected(pending.client, pending.sync_id)

\* connect() returned Ok (lines 217-223, 291-297): Connected is sent, then
\* the state is assigned, which drops what the old state held.
ConnectedAssign ==
    /\ pc = "connect_ok"
    /\ output' = Append(output, ConnectedEv(pending.address))
    /\ state' = NewSession
    /\ pending' = NoPending
    /\ pc' = "select"
    /\ UNCHANGED <<queue, step, sent, received, nextClient, nInputs>>
    /\ UNCHANGED <<app, conversion>>


\* -------------------------------------------------------- the loop, Connected
BlankConnectReplyDisconnects(st, address) ==
    [events |-> <<DisconnectedEv(Some(InvalidInput(MustNotBeEmpty)))>>,
     state |-> Disconnected]
\* The answer to a Connect with a blank address while Connected (lines
\* 258-269): the event sent, and the state, which `continue` leaves alone.
BlankConnectReply(st, address) ==
    [events |-> <<NonCriticalErrorEv(InvalidInput(<<"Input: '">> \o address))>>,
     state |-> st]

\* Connect while Connected (lines 257-313).
RecvConnectedConnect ==
    /\ pc = "select"
    /\ state.tag = "Connected"
    /\ queue # <<>>
    /\ Head(queue).type = "Connect"
    /\ LET msg == Head(queue) IN
       /\ queue' = Tail(queue)
       /\ step' = Step("msg", msg, state, Len(output))
       /\ IF IsBlank(msg.f1)
          THEN /\ output' = output \o BlankConnectReply(state, msg.f1).events
               /\ state' = BlankConnectReply(state, msg.f1).state
               /\ UNCHANGED <<pc, pending>>
          ELSE /\ pc' = "connect_new"
               /\ pending' = [NoPending EXCEPT !.address = msg.f1]
               /\ UNCHANGED <<state, output>>
    /\ UNCHANGED <<sent, received, nextClient, nInputs>>
    /\ UNCHANGED <<app, conversion>>

\* Disconnect (lines 314-317).
AfterDisconnectKeep == state
AfterDisconnect == Disconnected

RecvDisconnect ==
    /\ pc = "select"
    /\ state.tag = "Connected"
    /\ queue # <<>>
    /\ Head(queue).type = "Disconnect"
    /\ queue' = Tail(queue)
    /\ step' = Step("msg", Head(queue), state, Len(output))
    /\ output' = Append(output, DisconnectedEv(None))
    /\ state' = AfterDisconnect
    /\ UNCHANGED <<pc, pending, sent, received, nextClient, nInputs>>
    /\ UNCHANGED <<app, conversion>>

\* client_stream_send (lines 613-620): the message goes on the outbound
\* half unless the receiver is gone, which is only logged.
ClientStreamSend(frames, msg, gone) == IF gone THEN frames ELSE Append(frames, msg)

\* A failed send taken as a lost connection
AfterSyncFailureDisconnects(st, counter, gone) ==
    IF gone THEN Disconnected
    ELSE [st EXCEPT !.sync_id = counter, !.sender_closed = gone]
\* The state after the Sync arm: sync_id.next() has moved the counter
\* (line 319); nothing else is assigned.
AfterSync(st, counter, gone) ==
    [st EXCEPT !.sync_id = counter, !.sender_closed = gone]

\* Sync (lines 318-320): a Sync frame with the next id is sent on the
\* outbound half, whose receiver may be gone by then (and stays so).
RecvSync ==
    /\ pc = "select"
    /\ state.tag = "Connected"
    /\ queue # <<>>
    /\ Head(queue).type = "Sync"
    /\ queue' = Tail(queue)
    /\ step' = Step("msg", Head(queue), state, Len(output))
    /\ \E gone \in (IF state.sender_closed THEN {TRUE} ELSE BOOLEAN) :
         LET n == SyncIdNext(state.sync_id) IN
         /\ sent' = [sent EXCEPT ![state.client_in_sender] =
                        ClientStreamSend(@, SyncFrame(n.id), gone)]
         /\ state' = AfterSync(state, n.counter, gone)
    /\ UNCHANGED <<pc, pending, output, received, nextClient, nInputs>>
    /\ UNCHANGED <<app, conversion>>

\* The commands answered by one unary call without a response value
\* (lines 327-473).
UnitMsgs == {"AcquirePlace", "ReleasePlace", "AddPlace", "DeletePlace",
             "AddPlaceMatch", "DeletePlaceMatch", "AddPlaceTag", "DeletePlaceTag"}

\* The check each handler makes before its call
\* (lines 328, 345, 362, 379, 397, 415, 436, 457, 483).
InvalidFieldsFirstOnly(msg) == IsBlank(msg.f1)
InvalidFields(msg) ==
    CASE msg.type \in {"AcquirePlace", "ReleasePlace", "AddPlace", "DeletePlace",
                       "CancelReservation"} -> IsBlank(msg.f1)
      [] msg.type \in {"AddPlaceMatch", "DeletePlaceMatch", "DeletePlaceTag"} ->
           IsBlank(msg.f1) \/ IsBlank(msg.f2)
      [] msg.type = "AddPlaceTag" ->
           IsBlank(msg.f1) \/ IsBlank(msg.f2) \/ IsBlank(msg.f3)

\* A handler that loses the value of the tag, and clears by leaving out
TagsOfKeyOnly(msg) ==
    IF msg.type = "AddPlaceTag" THEN {<<msg.f2, <<>>>>} ELSE {}
\* The map handed to set_place_tags, as the set of its entries:
\* HashMap::from([tag]) (line 448), HashMap::from([(tag, String::default())])
\* (line 469).
TagsOf(msg) ==
    IF msg.type = "AddPlaceTag" THEN {<<msg.f2, msg.f3>>} ELSE {<<msg.f2, <<>>>>}

\* The facade call of each of them (lines 340, 357, 374, 391, 409, 427, 448, 469).
UnitCall(msg) ==
    CASE msg.type = "AcquirePlace" -> Call("acquire_place", <<msg.f1>>)
      [] msg.type = "ReleasePlace" -> Call("release_place", <<msg.f1, None>>)
      [] msg.type = "AddPlace" -> Call("add_place", <<msg.f1>>)
      [] msg.type = "DeletePlace" -> Call("delete_place", <<msg.f1>>)
      [] msg.type = "AddPlaceMatch" -> Call("add_place_match", <<msg.f1, msg.f2, None>>)
      [] msg.type = "DeletePlaceMatch" -> Call("delete_place_match", <<msg.f1, msg.f2, None>>)
      [] msg.type = "AddPlaceTag" -> Call("set_place_tags", <<msg.f1, TagsOf(msg)>>)
      [] msg.type = "DeletePlaceTag" -> Call("set_place_tags", <<msg.f1, TagsOf(msg)>>)

RecvUnit ==
    /\ pc = "select"
    /\ state.tag = "Connected"
    /\ queue # <<>>
    /\ Head(queue).type \in UnitMsgs
    /\ LET msg == Head(queue) IN
       /\ queue' = Tail(queue)
       /\ IF InvalidFields(msg)
          THEN /\ step' = Step("msg", msg, state, Len(output))
               /\ output' = Append(output, NonCriticalErrorEv(InvalidInput(MustNotBeEmpty)))
               /\ UNCHANGED state
          ELSE \E res \in UnitResults :
                 LET h == HandleGrpcClientError(state, res.error) IN
                 /\ step' = [Step("msg", msg, state, Len(output))
                               EXCEPT !.calls = <<UnitCall(msg)>>,
                                      !.results = <<res>>]
                 /\ output' = IF res.ok THEN output ELSE output \o h.events
                 /\ state' = IF res.ok THEN state ELSE h.state
    /\ UNCHANGED <<pc, pending, sent, received, nextClient, nInputs>>
    /\ UNCHANGED <<app, conversion>>

\* GetPlaces and GetReservations (lines 321-326, 474-479).
RecvList ==
    /\ pc = "select"
    /\ state.tag = "Connected"
    /\ queue # <<>>
    /\ Head(queue).type \in {"GetPlaces", "GetReservations"}
    /\ LET msg == Head(queue) IN
       /\ queue' = Tail(queue)
       /\ \E res \in ListResults :
            LET h == HandleGrpcClientError(state, res.error) IN
            /\ step' = [Step("msg", msg, state, Len(output)) EXCEPT !.calls =
                    <<Call(IF msg.type = "GetPlaces" THEN "get_places"
                           ELSE "get_reservations", <<>>)>>,
                    !.results = <<res>>]
            /\ output' = IF res.ok
                         THEN Append(output, IF msg.type = "GetPlaces"
                                             THEN PlacesEv(res.value)
                                             ELSE ReservationsEv(res.value))
                         ELSE output \o h.events
            /\ state' = IF res.ok THEN state ELSE h.state
    /\ UNCHANGED <<pc, pending, sent, received, nextClient, nInputs>>
    /\ UNCHANGED <<app, conversion>>

\* A handler that fetches the reservations whatever the cancel call returned
RefreshAlways(r1) == TRUE
\* Whether the handler goes on to get_reservations after the cancel call
\* (lines 497-500: `continue` on its error).
RefreshAfterCancel(r1) == r1.ok

\* CancelReservation (lines 480-503): the cancel call, and after its
\* success the reservations are fetched again.
RecvCancelReservation ==
    /\ pc = "select"
    /\ state.tag = "Connected"
    /\ queue # <<>>
    /\ Head(queue).type = "CancelReservation"
    /\ LET msg == Head(queue) IN
       /\ queue' = Tail(queue)
       /\ IF InvalidFields(msg)
          THEN /\ step' = Step("msg", msg, state, Len(output))
               /\ output' = Append(output, NonCriticalErrorEv(InvalidInput(MustNotBeEmpty)))
               /\ UNCHANGED state
          ELSE \E r1 \in UnitResults :
               \E r2 \in (IF RefreshAfterCancel(r1) THEN ListResults ELSE {NoResult}) :
                 LET h1 == HandleGrpcClientError(state, r1.error)
                     h2 == HandleGrpcClientError(state, r2.error)
                     refresh == RefreshAfterCancel(r1)
                 IN
                 /\ step' = [Step("msg", msg, state, Len(output)) EXCEPT !.calls =
                        IF refresh
                        THEN <<Call("cancel_reservation", <<msg.f1>>),
                               Call("get_reservations", <<>>)>>
                        ELSE <<Call("cancel_reservation", <<msg.f1>>)>>,
                        !.results = IF refresh THEN <<r1, r2>> ELSE <<r1>>]
                 /\ output' = output
                        \o (IF r1.ok THEN <<>> ELSE h1.events)
                        \o (IF ~refresh THEN <<>>
                            ELSE IF r2.ok THEN <<ReservationsEv(r2.value)>>
                            ELSE h2.events)
                 /\ state' = IF ~r1.ok THEN h1.state
                             ELSE IF r2.ok THEN state ELSE h2.state
    /\ UNCHANGED <<pc, pending, sent, received, nextClient, nInputs>>
    /\ UNCHANGED <<app, conversion>>

\* ------------------------------------------------------- inbound frames
\* proto::UpdateResponse: its oneof kind, unset ("None") in a malformed one.
ProtoKinds == {"Resource", "DelResource", "Place", "DelPlace", "None"}
ProtoUpdate(k) == [kind |-> k, value |-> "x"]

\* TryFrom<proto::UpdateResponse> for UpdateResponse (types.rs 309-324)
UpdateTryFrom(u) ==
    CASE u.kind = "None" -> Err(MsgConversion)
      [] u.kind = "Resource" -> Ok([kind |-> "Resource", value |-> u.value])
      [] u.kind = "DelResource" -> Ok([kind |-> "DeleteResource", value |-> u.value])
      [] u.kind = "Place" -> Ok([kind |-> "Place", value |-> u.value])
      [] u.kind = "DelPlace" -> Ok([kind |-> "DeletePlace", value |-> u.value])

\* A conversion that leaves out the updates that do not convert.
ClientOutMsgTryFromSkipping(m) ==
    LET good == SelectSeq(m.updates, LAMBDA u : UpdateTryFrom(u).ok) IN
    Ok([updates |-> [i \in 1..Len(good) |-> UpdateTryFrom(good[i]).value]])
\* TryFrom<proto::ClientOutMessage> for ClientOutMsg (types.rs 69-81):
\* every update converts, or the frame does not.
ClientOutMsgTryFrom(m) ==
    IF \E i \in 1..Len(m.updates) : ~UpdateTryFrom(m.updates[i]).ok
    THEN Err(MsgConversion)
    ELSE Ok([updates |-> [i \in 1..Len(m.updates) |-> UpdateTryFrom(m.updates[i]).value]])

HandleOutMsgReversed(msg) ==
    [i \in 1..Len(msg.updates) |-> UpdateEv(msg.updates[Len(msg.updates) + 1 - i])]
\* handle_out_msg (lines 625-642): one event per update, in order.
HandleOutMsg(msg) == [i \in 1..Len(msg.updates) |-> UpdateEv(msg.updates[i])]

\* The frames: up to MaxUpdates updates of different kinds (updates are
\* told apart by their kind only, so the order of two of the same kind
\* could not be seen).
UpdateSeqs ==
    UNION {{u \in [1..n -> {ProtoUpdate(k) : k \in ProtoKinds}] :
                \A i, j \in 1..n : u[i] = u[j] => i = j} : n \in 0..MaxUpdates}
\* An item of the inbound half: an error status, or a frame.
StreamItems ==
    {[ok |-> FALSE, updates |-> <<>>]} \cup {[ok |-> TRUE, updates |-> u] : u \in UpdateSeqs}

\* Lines 506-517; select! leaves out a stream that is_terminated().
RecvClientOutMsg ==
    /\ pc = "select"
    /\ state.tag = "Connected"
    /\ ~state.stream_done
    /\ nInputs < MaxInputs
    /\ \E item \in StreamItems :
         LET conv == ClientOutMsgTryFrom(item) IN
         /\ step' = Step("out_msg", [type |-> "None", item |-> item], state, Len(output))
         /\ output' = IF item.ok /\ conv.ok THEN output \o HandleOutMsg(conv.value)
                      ELSE output
         /\ received' = [received EXCEPT ![state.client_out_stream] = Append(@, item)]
    /\ nInputs' = nInputs + 1
    /\ UNCHANGED <<pc, state, pending, queue, sent, nextClient>>
    /\ UNCHANGED <<app, conversion>>

\* An end of the stream taken as a lost connection
RecvStreamEndDisconnects ==
    /\ pc = "select"
    /\ state.tag = "Connected"
    /\ ~state.stream_done
    /\ step' = Step("stream_end", NoMsg, state, Len(output))
    /\ output' = Append(output, DisconnectedEv(None))
    /\ state' = Disconnected
    /\ UNCHANGED <<pc, pending, queue, sent, received, nextClient, nInputs>>
    /\ UNCHANGED <<app, conversion>>

\* The inbound half ends (line 506): select_next_some() finds None, which
\* sets the flag of the Fuse, and stays pending; no arm of the select runs.
RecvStreamEnd ==
    /\ pc = "select"
    /\ state.tag = "Connected"
    /\ ~state.stream_done
    /\ step' = Step("stream_end", NoMsg, state, Len(output))
    /\ state' = [state EXCEPT !.stream_done = TRUE]
    /\ UNCHANGED <<pc, pending, queue, output, sent, received, nextClient, nInputs>>
    /\ UNCHANGED <<app, conversion>>

\* -------------------------------------------------------- interval tick
\* A loop that polls the interval in the Disconnected branch as well
RecvTickAnyState ==
    /\ pc = "select"
    /\ nInputs < MaxInputs
    /\ \E res \in ListResults :
         LET h == HandleGrpcClientError(state, res.error) IN
         /\ step' = [Step("tick", NoMsg, state, Len(output)) EXCEPT !.calls =
                 <<Call("get_reservations", <<>>)>>,
                 !.results = <<res>>]
         /\ output' = IF res.ok THEN Append(output, ReservationsEv(res.value))
                      ELSE output \o h.events
         /\ state' = IF res.ok THEN state ELSE h.state
    /\ nInputs' = nInputs + 1
    /\ UNCHANGED <<pc, pending, queue, sent, received, nextClient>>
    /\ UNCHANGED <<app, conversion>>

\* Lines 518-523.
RecvTick ==
    /\ pc = "select"
    /\ state.tag = "Connected"
    /\ nInputs < MaxInputs
    /\ \E res \in ListResults :
         LET h == HandleGrpcClientError(state, res.error) IN
         /\ step' = [Step("tick", NoMsg, state, Len(output)) EXCEPT !.calls =
                 <<Call("get_reservations", <<>>)>>,
                 !.results = <<res>>]
         /\ output' = IF res.ok THEN Append(output, ReservationsEv(res.value))
                      ELSE output \o h.events
         /\ state' = IF res.ok THEN state ELSE h.state
    /\ nInputs' = nInputs + 1
    /\ UNCHANGED <<pc, pending, queue, sent, received, nextClient>>
    /\ UNCHANGED <<app, conversion>>

\* ----------------------------------------------------------------- Next
Next ==
    \/ KickoffStart
    \/ Send
    \/ RecvDisconnected
    \/ ConnectNewOk
    \/ ConnectNewErr
    \/ ConnectStreamOk
    \/ ConnectStreamErr
    \/ ConnectTimeout
    \/ ConnectedAssign
    \/ RecvConnectedConnect
    \/ RecvDisconnect
    \/ RecvSync
    \/ RecvUnit
    \/ RecvList
    \/ RecvCancelReservation
    \/ RecvClientOutMsg
    \/ RecvStreamEnd
    \/ RecvTick

Spec == Init /\ [][Next]_vars

\* ------------------------------------------------- an established session
\* The task as a first Connect{address: "a"} that succeeded leaves it (a
\* state of Spec), with the count of inputs started afresh: what follows
\* is the life of that session, several inbound items long.
InitSession ==
    /\ pc = "select"
    /\ state = Connected(1, SyncIdNext(SyncIdDefault).counter)
    /\ pending = NoPending
    /\ queue = <<>>
    /\ output = <<ReceiveReady, ConnectedEv(<<"a">>)>>
    /\ step = [Step("msg", Msg1("Connect", <<"a">>), Disconnected, 1) EXCEPT
                 !.calls = <<Call("new", <<<<"a">>>>), Call("client_stream", <<>>)>>]
    /\ sent = [c \in {1} |-> Handshake(SyncIdDefault)]
    /\ received = [c \in {1} |-> <<>>]
    /\ nextClient = 2
    /\ nInputs = 0
    /\ app = AppNew
    /\ conversion = NoConv

\* The session with the holders of the command sender silent: only the
\* coordinator (inbound items) and the interval act on it.
NextStream ==
    \/ RecvClientOutMsg
    \/ RecvStreamEnd
    \/ RecvTick

StreamSpec == InitSession /\ [][NextStream]_vars

\* ------------------------------------------------------------ Path order
\* core::cmp::Ordering
Less == "Less"
Equal == "Equal"
Greater == "Greater"

\* The characters of the names below: their code points, and the value of
\* the digits among them.
CodePoint ==
    [c \in {"0", "1", "2", "a", "b", "r"} |->
        CASE c = "0" -> 48 [] c = "1" -> 49 [] c = "2" -> 50
          [] c = "a" -> 97 [] c = "b" -> 98 [] c = "r" -> 114]
IsDigit(c) == c \in {"0", "1", "2"}
DigitValue(c) == CodePoint[c] - CodePoint["0"]

\* The digits a string starts with, and the number they spell.
RECURSIVE DigitRun(_)
DigitRun(s) ==
    IF s # <<>> /\ IsDigit(Head(s)) THEN 1 + DigitRun(Tail(s)) ELSE 0
RECURSIVE NumberOf(_)
NumberOf(digits) ==
    IF digits = <<>> THEN 0
    ELSE 10 * NumberOf(SubSeq(digits, 1, Len(digits) - 1)) + DigitValue(digits[Len(digits)])

\* Comparison of strings character by character (str's Ord)
RECURSIVE StrCmp(_, _)
StrCmp(a, b) ==
    IF a = <<>> /\ b = <<>> THEN Equal
    ELSE IF a = <<>> THEN Less
    ELSE IF b = <<>> THEN Greater
    ELSE IF CodePoint[Head(a)] < CodePoint[Head(b)] THEN Less
    ELSE IF CodePoint[Head(a)] > CodePoint[Head(b)] THEN Greater
    ELSE StrCmp(Tail(a), Tail(b))

\* numeric_sort::cmp, the comparator of the numeric-sort crate that
\* numeric_cmp calls: character by character, a run of digits counting as
\* the number it spells.  The names compared here have no leading zeros.
RECURSIVE NumericSortCmp(_, _)
NumericSortCmp(a, b) ==
    IF a = <<>> /\ b = <<>> THEN Equal
    ELSE IF a = <<>> THEN Less
    ELSE IF b = <<>> THEN Greater
    ELSE IF IsDigit(Head(a)) /\ IsDigit(Head(b))
    THEN LET na == DigitRun(a)
             nb == DigitRun(b)
             va == NumberOf(SubSeq(a, 1, na))
             vb == NumberOf(SubSeq(b, 1, nb))
         IN IF va < vb THEN Less
            ELSE IF va > vb THEN Greater
            ELSE NumericSortCmp(SubSeq(a, na + 1, Len(a)), SubSeq(b, nb + 1, Len(b)))
    ELSE IF CodePoint[Head(a)] < CodePoint[Head(b)] THEN Less
    ELSE IF CodePoint[Head(a)] > CodePoint[Head(b)] THEN Greater
    ELSE NumericSortCmp(Tail(a), Tail(b))

\* The order #[derive(Ord)] gives Path: None first, then plain strings
PathCmpDerived(self, other) ==
    LET name_ord ==
          CASE self.exporter_name # None /\ other.exporter_name # None ->
                   StrCmp(self.exporter_name[1], other.exporter_name[1])
            [] self.exporter_name # None /\ other.exporter_name = None -> Greater
            [] self.exporter_name = None /\ other.exporter_name # None -> Less
            [] OTHER -> Equal
        group_ord == StrCmp(self.group_name, other.group_name)
    IN IF name_ord # Equal THEN name_ord
       ELSE IF group_ord # Equal THEN group_ord
       ELSE StrCmp(self.resource_name, other.resource_name)

\* Path::numeric_cmp (types.rs 430-447)
PathNumericCmp(self, other) ==
    LET name_ord ==
          CASE self.exporter_name # None /\ other.exporter_name # None ->
                   NumericSortCmp(self.exporter_name[1], other.exporter_name[1])
            [] self.exporter_name # None /\ other.exporter_name = None -> Greater
            [] self.exporter_name = None /\ other.exporter_name # None -> Less
            [] OTHER -> Equal
        group_ord == NumericSortCmp(self.group_name, other.group_name)
    IN IF name_ord # Equal THEN name_ord
       ELSE IF group_ord # Equal THEN group_ord
       ELSE NumericSortCmp(self.resource_name, other.resource_name)

\* ------------------------------------------------- the lists of the GUI
\* slice::sort_by, a stable sort: an element goes behind those that compare
\* Less and those that compare Equal and stood before it.
SortBy(s, Cmp(_, _)) ==
    LET rank == [i \in 1..Len(s) |->
                    Cardinality({j \in 1..Len(s) :
                        \/ Cmp(s[j], s[i]) = Less
                        \/ Cmp(s[j], s[i]) = Equal /\ j < i})]
    IN [k \in 1..Len(s) |-> s[CHOOSE i \in 1..Len(s) : rank[i] = k - 1]]
\* A sort that leaves the list as it is
KeepOrder(l) == l

\* AppConnected::sort_places (app.rs 1088-1098): the places by name, and
\* in each place its acquired resources (its matches, which the places
\* here do not have, likewise).
SortPlaces(places) ==
    LET sorted == SortBy(places, LAMBDA x, y : NumericSortCmp(x.name, y.name)) IN
    [i \in 1..Len(sorted) |->
        [sorted[i] EXCEPT !.acquired_resources = SortBy(@, NumericSortCmp)]]
\* AppConnected::sort_resources (app.rs 1107-1110)
SortResources(resources) ==
    SortBy(resources, LAMBDA x, y : PathNumericCmp(x.path, y.path))
\* AppConnected::sort_reservations (app.rs 1101-1104); a list of one
\* reservation or none is sorted.
SortReservations(reservations) ==
    IF Len(reservations) <= 1 THEN reservations
    ELSE SortBy(reservations, LAMBDA x, y : NumericSortCmp(x.owner, y.owner))

\* The first entry of a list with the given key, 0 if there is none
\* (iter().find)
FindPlace(places, name) ==
    IF \E i \in 1..Len(places) : places[i].name = name
    THEN CHOOSE i \in 1..Len(places) :
             places[i].name = name /\ \A j \in 1..(i - 1) : places[j].name # name
    ELSE 0
FindResource(resources, path) ==
    IF \E i \in 1..Len(resources) : resources[i].path = path
    THEN CHOOSE i \in 1..Len(resources) :
             resources[i].path = path /\ \A j \in 1..(i - 1) : resources[j].path # path
    ELSE 0
\* Vec::remove(i)
Remove(l, i) == SubSeq(l, 1, i - 1) \o SubSeq(l, i + 1, Len(l))

\* An upsert that always pushes
PlaceAddReplacePush(places, place) == SortPlaces(Append(places, place))
\* AppConnected::place_add_replace (app.rs 1156-1169)
PlaceAddReplace(places, place) ==
    LET i == FindPlace(places, place.name) IN
    SortPlaces(IF i # 0 THEN [places EXCEPT ![i] = place] ELSE Append(places, place))
\* AppConnected::delete_place (app.rs 1171-1182)
DeletePlace(places, name) ==
    LET i == FindPlace(places, name) IN
    IF i # 0 THEN Remove(places, i) ELSE places
\* AppConnected::resource_add_replace (app.rs 1112-1128)
ResourceAddReplace(resources, resource) ==
    LET i == FindResource(resources, resource.path) IN
    SortResources(IF i # 0 THEN [resources EXCEPT ![i] = resource]
                  ELSE Append(resources, resource))
\* AppConnected::remove_resource (app.rs 1130-1142)
RemoveResource(resources, path) ==
    LET i == FindResource(resources, path) IN
    IF i # 0 THEN Remove(resources, i) ELSE resources

\* An update() that applies the data events in every state of the shell
AppliesAlways(a) == TRUE
\* `if let AppState::Connected(connected) = &mut self.state`
\* (app.rs 498, 505, 512, 523, 531, 538)
Applies(a) == a.state = "Connected"

\* App::update for an event of the session (app.rs 477-549), the commands
\* it submits apart: the sender is kept, Disconnected leads to
\* NotConnected, Connected to a new AppConnected with empty lists
\* (775-794), and the data events change the lists of an AppConnected.
AppUpdate(a, ev) ==
    CASE ev.type = "ReceiveReady" -> [a EXCEPT !.connection_sender = TRUE]
      [] ev.type = "Disconnected" ->
           [a EXCEPT !.state = "NotConnected",
                     !.places = <<>>, !.resources = <<>>, !.reservations = <<>>]
      [] ev.type = "Connected" ->
           [a EXCEPT !.state = "Connected",
                     !.places = <<>>, !.resources = <<>>, !.reservations = <<>>]
      [] ev.type = "Place" /\ Applies(a) ->
           [a EXCEPT !.places = PlaceAddReplace(@, ev.value)]
      [] ev.type = "DeletePlace" /\ Applies(a) ->
           [a EXCEPT !.places = DeletePlace(@, ev.value)]
      [] ev.type = "Places" /\ Applies(a) ->
           [a EXCEPT !.places = SortPlaces(ev.list)]
      [] ev.type = "Reservations" /\ Applies(a) ->
           [a EXCEPT !.reservations = SortReservations(ev.list)]
      [] ev.type = "Resource" /\ Applies(a) ->
           [a EXCEPT !.resources = ResourceAddReplace(@, ev.value)]
      [] ev.type = "DeleteResource" /\ Applies(a) ->
           [a EXCEPT !.resources = RemoveResource(@, ev.value)]
      [] OTHER -> a

\* ------------------------------------------------- the session under the GUI
\* ConnectionSender::send, message after message, on a channel holding q.
\* A channel that makes room by dropping the oldest command it holds
RECURSIVE TrySendAllDropOldest(_, _)
TrySendAllDropOldest(q, msgs) ==
    IF msgs = <<>> THEN q
    ELSE TrySendAllDropOldest(
             IF Len(q) < MaxQueue THEN Append(q, Head(msgs))
             ELSE Append(Tail(q), Head(msgs)), Tail(msgs))
RECURSIVE TrySendAll(_, _)
TrySendAll(q, msgs) ==
    IF msgs = <<>> THEN q
    ELSE TrySendAll(IF Len(q) < MaxQueue THEN Append(q, Head(msgs)) ELSE q, Tail(msgs))

\* send_connection_msg (app.rs 1186-1192): nothing without a sender.
SendConnectionMsgs(msgs) ==
    IF app.connection_sender THEN TrySendAll(queue, msgs) ELSE queue

OnConnectedNothing == <<>>
\* What update() submits when it handles a Connected event (app.rs 547).
OnConnected == <<Msg0("GetReservations")>>

\* App::update for the next event of the session (app.rs 477-549): the
\* sender is kept, Disconnected leads to NotConnected, Connected to a new
\* AppConnected; the other events change data the session never sees.
AppUpdateEvent ==
    /\ app.seen < Len(output)
    /\ LET ev == output[app.seen + 1] IN
       /\ app' = [AppUpdate(app, ev) EXCEPT !.seen = @ + 1]
       /\ queue' = IF ev.type = "Connected" THEN SendConnectionMsgs(OnConnected)
                    ELSE queue
    /\ UNCHANGED <<pc, state, pending, output, step, sent, received, nextClient, nInputs>>
    /\ UNCHANGED conversion

\* NotConnectedMsg::Connect (app.rs 704-720): without a sender nothing
\* happens; with one the address of the input field is sent and the shell
\* is Connecting, whether the channel took the command or not.
AppConnect ==
    /\ app.state = "NotConnected"
    /\ app.clicks < MaxClicks
    /\ \E address \in Addresses :
         IF app.connection_sender
         THEN /\ queue' = TrySendAll(queue, <<Msg1("Connect", address)>>)
              /\ app' = [app EXCEPT !.state = "Connecting", !.clicks = @ + 1]
         ELSE /\ queue' = queue
              /\ app' = [app EXCEPT !.clicks = @ + 1]
    /\ UNCHANGED <<pc, state, pending, output, step, sent, received, nextClient, nInputs>>
    /\ UNCHANGED conversion

\* ConnectedMsg::Disconnect (app.rs 814-817): the shell stays Connected
\* until the session's event arrives.
AppDisconnect ==
    /\ app.state = "Connected"
    /\ app.clicks < MaxClicks
    /\ queue' = SendConnectionMsgs(<<Msg0("Disconnect")>>)
    /\ app' = [app EXCEPT !.clicks = @ + 1]
    /\ UNCHANGED <<pc, state, pending, output, step, sent, received, nextClient, nInputs>>
    /\ UNCHANGED conversion

\* ConnectedMsg::Refresh (app.rs 818-823)
AppRefresh ==
    /\ app.state = "Connected"
    /\ app.clicks < MaxClicks
    /\ queue' = SendConnectionMsgs(<<Msg0("Sync"), Msg0("GetReservations")>>)
    /\ app' = [app EXCEPT !.clicks = @ + 1]
    /\ UNCHANGED <<pc, state, pending, output, step, sent, received, nextClient, nInputs>>
    /\ UNCHANGED conversion

\* The session with the GUI shell as the only holder of the sender, a user
\* who connects, disconnects and refreshes, and a coordinator that answers
\* calls and pushes nothing.  The interval, whose ticks act like
\* GetReservations commands of the session's own, is left to Spec.
NextApp ==
    \/ KickoffStart
    \/ AppUpdateEvent
    \/ AppConnect
    \/ AppDisconnect
    \/ AppRefresh
    \/ RecvDisconnected
    \/ ConnectNewOk
    \/ ConnectNewErr
    \/ ConnectStreamOk
    \/ ConnectStreamErr
    \/ ConnectTimeout
    \/ ConnectedAssign
    \/ RecvDisconnect
    \/ RecvSync
    \/ RecvList

AppSpec == Init /\ [][NextApp]_vars

\* The steps of the session task under the shell
SessionSteps ==
    \/ KickoffStart
    \/ RecvDisconnected
    \/ ConnectNewOk
    \/ ConnectNewErr
    \/ ConnectStreamOk
    \/ ConnectStreamErr
    \/ ConnectTimeout
    \/ ConnectedAssign
    \/ RecvDisconnect
    \/ RecvSync
    \/ RecvList

\* AppSpec with the session task scheduled whenever it can take a step
\* (a command in the channel, a call or the timeout of connect() to
\* return) and every event of the subscription delivered to update();
\* the user is not bound to click.
AppFairSpec ==
    /\ Init
    /\ [][NextApp]_vars
    /\ WF_vars(SessionSteps)
    /\ WF_vars(AppUpdateEvent)


\* ======================================================================
\* grpc::types: the wire types, the local types, the conversions
\* ======================================================================
\* An Option is a sequence of at most one element; a oneof `kind` is an
\* Option of a variant [tag, val]; a HashMap is a function on its keys;
\* scalars are opaque tokens, copied as they are.
ConversionError(msg) == [ok |-> FALSE, msg |-> msg]
Converted(v) == [ok |-> TRUE, value |-> v]
Variant(tag, val) == [tag |-> tag, val |-> val]

\* collect::<Result<Vec<_>, _>>(): the first error, or all the values.
CollectVec(rs) ==
    IF \E i \in 1..Len(rs) : ~rs[i].ok
    THEN rs[CHOOSE i \in 1..Len(rs) : ~rs[i].ok /\ \A j \in 1..(i - 1) : rs[j].ok]
    ELSE Converted([i \in 1..Len(rs) |-> rs[i].value])
\* collect::<Result<HashMap<_, _>, _>>(): an error of some entry (the map
\* is walked in no particular order), or all the entries.
CollectMap(rs) ==
    IF \E k \in DOMAIN rs : ~rs[k].ok
    THEN rs[CHOOSE k \in DOMAIN rs : ~rs[k].ok]
    ELSE Converted([k \in DOMAIN rs |-> rs[k].value])

\* TryFrom<proto::MapValue> for MapValue (types.rs 459-481)
RECURSIVE MapValueTryFrom(_)
MapValueTryFrom(value) ==
    IF value.kind = None THEN ConversionError("MapValue kind is None")
    ELSE LET kind == value.kind[1] IN
         CASE kind.tag = "BoolValue" -> Converted(Variant("Bool", kind.val))
           [] kind.tag = "IntValue" -> Converted(Variant("Int", kind.val))
           [] kind.tag = "UintValue" -> Converted(Variant("UInt", kind.val))
           [] kind.tag = "FloatValue" -> Converted(Variant("Float", kind.val))
           [] kind.tag = "StringValue" -> Converted(Variant("String", kind.val))
           [] kind.tag = "ArrayValue" ->
                LET values == CollectVec([i \in 1..Len(kind.val) |->
                                             MapValueTryFrom(kind.val[i])])
                IN IF values.ok THEN Converted(Variant("Array", values.value))
                   ELSE values

\* TryFrom<MapValue> for proto::MapValue (types.rs 483-502)
RECURSIVE MapValueInto(_)
MapValueInto(value) ==
    CASE value.tag = "Bool" -> Converted([kind |-> Some(Variant("BoolValue", value.val))])
      [] value.tag = "Int" -> Converted([kind |-> Some(Variant("IntValue", value.val))])
      [] value.tag = "UInt" -> Converted([kind |-> Some(Variant("UintValue", value.val))])
      [] value.tag = "Float" -> Converted([kind |-> Some(Variant("FloatValue", value.val))])
      [] value.tag = "String" -> Converted([kind |-> Some(Variant("StringValue", value.val))])
      [] value.tag = "Array" ->
           LET values == CollectVec([i \in 1..Len(value.val) |-> MapValueInto(value.val[i])])
           IN IF values.ok
              THEN Converted([kind |-> Some(Variant("ArrayValue", values.value))])
              ELSE values

\* TryFrom<proto::resource::Path> for Path (types.rs 406-416)
PathTryFrom(value) ==
    Converted([exporter_name |-> value.exporter_name,
               group_name |-> value.group_name,
               resource_name |-> value.resource_name])
\* TryFrom<Path> for proto::resource::Path (types.rs 418-428)
PathInto(value) ==
    Converted([exporter_name |-> value.exporter_name,
               group_name |-> value.group_name,
               resource_name |-> value.resource_name])

\* The entries of a wire map that Resource's conversion looks at
\* (types.rs 348, 354): those whose value has its kind set.
KindIsSome(m) == {k \in DOMAIN m : m[k].kind # None}
\* A conversion that looks at every entry
AllEntries(m) == DOMAIN m

\* The two maps of a Resource, wire to local (types.rs 345-356)
MapValuesTryFrom(m) == CollectMap([k \in KindIsSome(m) |-> MapValueTryFrom(m[k])])

\* A conversion that makes up the path a wire Resource lacks
ResourceTryFromDefaultPath(value) ==
    LET path == IF value.path = None
                THEN [exporter_name |-> None, group_name |-> <<>>, resource_name |-> <<>>]
                ELSE value.path[1]
        params == MapValuesTryFrom(value.params)
        extra == MapValuesTryFrom(value.extra)
    IN IF ~params.ok THEN params
       ELSE IF ~extra.ok THEN extra
       ELSE Converted([path |-> path, cls |-> value.cls, params |-> params.value,
                       extra |-> extra.value, acquired |-> value.acquired,
                       available |-> value.avail])
\* TryFrom<proto::Resource> for Resource (types.rs 336-368)
ResourceTryFrom(value) ==
    IF value.path = None THEN ConversionError("Resoure path is None")
    ELSE LET path == PathTryFrom(value.path[1])
             params == MapValuesTryFrom(value.params)
             extra == MapValuesTryFrom(value.extra)
         IN IF ~path.ok THEN path
            ELSE IF ~params.ok THEN params
            ELSE IF ~extra.ok THEN extra
            ELSE Converted([path |-> path.value,
                            cls |-> value.cls,
                            params |-> params.value,
                            extra |-> extra.value,
                            acquired |-> value.acquired,
                            available |-> value.avail])

\* A conversion to the wire that sends the params in both maps
ResourceIntoParamsTwice(value) ==
    LET path == PathInto(value.path)
        params == CollectMap([k \in DOMAIN value.params |-> MapValueInto(value.params[k])])
    IN Converted([path |-> Some(path.value), cls |-> value.cls,
                  params |-> params.value, extra |-> params.value,
                  acquired |-> value.acquired, avail |-> value.available])
\* TryFrom<Resource> for proto::Resource (types.rs 370-397)
ResourceInto(value) ==
    LET path == PathInto(value.path)
        params == CollectMap([k \in DOMAIN value.params |-> MapValueInto(value.params[k])])
        extra == CollectMap([k \in DOMAIN value.extra |-> MapValueInto(value.extra[k])])
    IN IF ~path.ok THEN path
       ELSE IF ~params.ok THEN params
       ELSE IF ~extra.ok THEN extra
       ELSE Converted([path |-> Some(path.value),
                       cls |-> value.cls,
                       params |-> params.value,
                       extra |-> extra.value,
                       acquired |-> value.acquired,
                       avail |-> value.available])

\* TryFrom<proto::ResourceMatch> for ResourceMatch (types.rs 606-618)
ResourceMatchTryFrom(value) ==
    Converted([exporter |-> value.exporter, group |-> value.group, cls |-> value.cls,
               name |-> value.name, rename |-> value.rename])

\* A conversion that copies `acquired` as it is on the wire
KeepOption(o) == o
\* Option::filter(|s| !s.is_empty())
FilterNotEmpty(o) == IF o # None /\ o[1] # <<>> THEN o ELSE None

\* TryFrom<proto::Place> for Place (types.rs 573-595)
PlaceTryFrom(value) ==
    LET matches == CollectVec([i \in 1..Len(value.matches) |->
                                  ResourceMatchTryFrom(value.matches[i])])
    IN IF ~matches.ok THEN matches
       ELSE Converted([name |-> value.name,
                       aliases |-> value.aliases,
                       comment |-> value.comment,
                       tags |-> value.tags,
                       matches |-> matches.value,
                       acquired |-> FilterNotEmpty(value.acquired),
                       acquired_resources |-> value.acquired_resources,
                       allowed |-> value.allowed,
                       created |-> value.created,
                       changed |-> value.changed,
                       reservation |-> value.reservation])

\* TryFrom<proto::Sync> for Sync (types.rs 285-291)
SyncTryFrom(value) == Converted([id |-> value.id])
\* TryFrom<proto::StartupDone> for StartupDone (types.rs 258-267)
StartupDoneTryFrom(value) == Converted([version |-> value.version, name |-> value.name])
\* TryFrom<proto::ExporterResponse> for ExporterResponse (types.rs 232-240)
ExporterResponseTryFrom(value) == Converted([success |-> value.success])
\* TryFrom<proto::subscribe::Kind> for SubscribeKind (types.rs 203-213)
SubscribeKindTryFrom(value) == Converted(Variant(value.tag, value.val))

\* TryFrom<proto::Subscribe> for Subscribe (types.rs 168-182)
SubscribeTryFrom(value) ==
    IF value.kind = None THEN ConversionError("Subscribe kind is None")
    ELSE LET kind == SubscribeKindTryFrom(value.kind[1]) IN
         IF ~kind.ok THEN kind
         ELSE Converted([is_unsubscribe |-> value.is_unsubscribe, kind |-> kind.value])

\* `Self::Variant(val.try_into()?)`
Wrap(tag, r) == IF r.ok THEN Converted(Variant(tag, r.value)) ELSE r

\* TryFrom<proto::ClientInMessage> for ClientInMsg (types.rs 30-44)
ClientInMsgTryFrom(value) ==
    IF value.kind = None THEN ConversionError("ClientInMessage kind is None")
    ELSE LET kind == value.kind[1] IN
         CASE kind.tag = "Sync" -> Wrap("Sync", SyncTryFrom(kind.val))
           [] kind.tag = "Startup" -> Wrap("StartupDone", StartupDoneTryFrom(kind.val))
           [] kind.tag = "Subscribe" -> Wrap("Subscribe", SubscribeTryFrom(kind.val))

\* TryFrom<proto::ExporterInMessage> for ExporterInMessage (types.rs 90-106)
ExporterInMessageTryFrom(value) ==
    IF value.kind = None THEN ConversionError("ExporterInMessage kind is None")
    ELSE LET kind == value.kind[1] IN
         CASE kind.tag = "Resource" -> Wrap("Resource", ResourceTryFrom(kind.val))
           [] kind.tag = "Startup" -> Wrap("StartupDone", StartupDoneTryFrom(kind.val))
           [] kind.tag = "Response" ->
                Wrap("ExporterResponse", ExporterResponseTryFrom(kind.val))

\* TryFrom<proto::ExporterOutMessage> for ExporterOutMessage (types.rs 139-160)
ExporterOutMessageTryFrom(value) ==
    IF value.kind = None THEN ConversionError("ExporterOutMessage kind is None")
    ELSE LET kind == value.kind[1] IN
         CASE kind.tag = "Hello" ->
                Converted(Variant("Hello", [version |-> kind.val.version]))
           [] kind.tag = "SetAcquiredRequest" ->
                Converted(Variant("ExporterSetAcquiredRequest",
                                  [group_name |-> kind.val.group_name,
                                   resource_name |-> kind.val.resource_name,
                                   place_name |-> kind.val.place_name]))

\* TryFrom<proto::UpdateResponse> for UpdateResponse (types.rs 309-324),
\* payloads and all; UpdateTryFrom above is the same conversion with the
\* payload left opaque.
UpdateResponseTryFrom(value) ==
    IF value.kind = None THEN ConversionError("UpdateResponse kind is None")
    ELSE LET kind == value.kind[1] IN
         CASE kind.tag = "Resource" -> Wrap("Resource", ResourceTryFrom(kind.val))
           [] kind.tag = "DelResource" -> Wrap("DeleteResource", PathTryFrom(kind.val))
           [] kind.tag = "Place" -> Wrap("Place", PlaceTryFrom(kind.val))
           [] kind.tag = "DelPlace" -> Converted(Variant("DeletePlace", kind.val))

\* ------------------------------------------------------------ the inputs
SeqsUpTo(S, n) == UNION {[1..k -> S] : k \in 0..n}
EmptyMap == [k \in {} |-> <<>>]
\* The maps with at most the key "k", and those that also hold `other`
\* under the key "l".
MapsOf(V, other) ==
    {EmptyMap} \cup {[k \in {"k"} |-> v] : v \in V}
        \cup {[k \in {"k", "l"} |-> IF k = "k" THEN v ELSE other] : v \in V}

\* proto::MapValue: kind unset, a scalar, an array, an array in an array
WireUnset == [kind |-> None]
WireBool == [kind |-> Some(Variant("BoolValue", "true"))]
WireString == [kind |-> Some(Variant("StringValue", "s"))]
WireArray(values) == [kind |-> Some(Variant("ArrayValue", values))]
WireScalars ==
    {WireUnset, WireBool, WireString,
     [kind |-> Some(Variant("IntValue", "-1"))],
     [kind |-> Some(Variant("UintValue", "1"))],
     [kind |-> Some(Variant("FloatValue", "0.5"))]}
WireMapValues ==
    WireScalars
        \cup {WireArray(vs) : vs \in SeqsUpTo({WireUnset, WireBool, WireString}, MaxArray)}
        \cup {WireArray(vs) : vs \in SeqsUpTo({WireBool, WireArray(<<WireBool>>),
                                               WireArray(<<WireUnset>>)}, MaxArray)}

\* MapValue
LocalBool == Variant("Bool", "true")
LocalString == Variant("String", "s")
LocalArray(values) == Variant("Array", values)
LocalMapValues ==
    {LocalBool, LocalString, Variant("Int", "-1"), Variant("UInt", "1"),
     Variant("Float", "0.5")}
        \cup {LocalArray(vs) : vs \in SeqsUpTo({LocalBool, LocalString}, MaxArray)}
        \cup {LocalArray(vs) : vs \in SeqsUpTo({LocalBool, LocalArray(<<LocalBool>>),
                                                LocalArray(<<>>)}, MaxArray)}

\* proto::resource::Path and Path have the same fields
ConvPaths ==
    {[exporter_name |-> e, group_name |-> <<"a">>, resource_name |-> <<"r">>] :
        e \in {None, Some(<<"b">>)}}

\* proto::Resource
WireResources ==
    [path : {None} \cup {Some(p) : p \in ConvPaths},
     cls : {<<"a">>},
     params : MapsOf(WireMapValues, WireBool),
     extra : MapsOf({WireUnset, WireString, WireArray(<<WireUnset>>)}, WireBool),
     acquired : {<<>>, <<"a">>},
     avail : BOOLEAN]

\* Resource
LocalResources ==
    [path : ConvPaths,
     cls : {<<"a">>},
     params : MapsOf(LocalMapValues, LocalBool),
     extra : MapsOf({LocalString, LocalArray(<<LocalArray(<<LocalBool>>)>>)}, LocalBool),
     acquired : {<<>>, <<"a">>},
     available : BOOLEAN]

\* proto::ResourceMatch
WireMatches ==
    [exporter : {<<"a">>}, group : {<<"b">>}, cls : {<<"a">>},
     name : {None, Some(<<"r">>)}, rename : {None}]

\* proto::Place
WirePlaces ==
    [name : {<<"a">>},
     aliases : {<<>>, <<<<"b">>>>},
     comment : {<<>>},
     tags : {EmptyMap, [k \in {"k"} |-> <<"a">>]},
     matches : SeqsUpTo(WireMatches, 1),
     acquired : {None, Some(<<>>), Some(<<"a">>), Some(<<" ">>)},
     acquired_resources : {<<>>, <<<<"r">>>>},
     allowed : {<<>>},
     created : {"1.0"},
     changed : {"2.0"},
     reservation : {None, Some(<<>>), Some(<<"a">>)}]

\* proto::Subscribe
WireSubscribes ==
    [is_unsubscribe : {None, Some(TRUE), Some(FALSE)},
     kind : {None, Some(Variant("AllPlaces", TRUE)), Some(Variant("AllResources", FALSE))}]

\* A few resources for the messages that carry one
SomeWireResources ==
    {r \in WireResources :
        /\ r.acquired = <<>> /\ r.avail
        /\ r.params \in {EmptyMap, [k \in {"k"} |-> WireUnset],
                         [k \in {"k"} |-> WireArray(<<WireUnset>>)]}
        /\ r.extra = EmptyMap}

\* proto::ClientInMessage
WireClientInMessages ==
    [kind : {None}
        \cup {Some(Variant("Sync", [id |-> i])) : i \in {1, U64Max}}
        \cup {Some(Variant("Startup", [version |-> <<"1">>, name |-> <<"a">>]))}
        \cup {Some(Variant("Subscribe", sub)) : sub \in WireSubscribes}]

\* proto::ExporterInMessage
WireExporterInMessages ==
    [kind : {None}
        \cup {Some(Variant("Resource", r)) : r \in SomeWireResources}
        \cup {Some(Variant("Startup", [version |-> <<"1">>, name |-> <<"a">>]))}
        \cup {Some(Variant("Response", [success |-> b])) : b \in BOOLEAN}]

\* proto::ExporterOutMessage
WireExporterOutMessages ==
    [kind : {None, Some(Variant("Hello", [version |-> <<"1">>]))}
        \cup {Some(Variant("SetAcquiredRequest",
                           [group_name |-> <<"a">>, resource_name |-> <<"r">>,
                            place_name |-> pl])) : pl \in {None, Some(<<"b">>)}}]

\* proto::UpdateResponse
WireUpdateResponses ==
    [kind : {None}
        \cup {Some(Variant("Resource", r)) : r \in SomeWireResources}
        \cup {Some(Variant("DelResource", path)) : path \in ConvPaths}
        \cup {Some(Variant("Place", pl)) : pl \in WirePlaces}
        \cup {Some(Variant("DelPlace", <<"a">>))}]

\* The names numeric_cmp is given, and the paths made of them
Names == {<<"a">>, <<"b">>, <<"r", "2">>, <<"r", "1", "0">>}
Paths ==
    [exporter_name : {None} \cup {Some(n) : n \in Names},
     group_name : Names,
     resource_name : Names]

\* ------------------------------------------------- the specification
\* One conversion or comparison: the input is drawn, the function applied.
Input(fn, v) == [op |-> "input", fn |-> fn, input |-> v]
Output(r) == [op |-> "output", fn |-> conversion.fn, input |-> conversion.input, out |-> r]

InitConv ==
    /\ pc = "start"
    /\ state = Disconnected
    /\ pending = NoPending
    /\ queue = <<>>
    /\ output = <<>>
    /\ step = Step("start", NoMsg, Disconnected, 0)
    /\ sent = [c \in {} |-> <<>>]
    /\ received = [c \in {} |-> <<>>]
    /\ nextClient = 1
    /\ nInputs = 0
    /\ app = AppNew
    /\ \/ \E v \in WireMapValues : conversion = Input("MapValue", v)
       \/ \E v \in WireResources : conversion = Input("Resource", v)
       \/ \E v \in WirePlaces : conversion = Input("Place", v)
       \/ \E v \in WireSubscribes : conversion = Input("Subscribe", v)
       \/ \E v \in WireClientInMessages : conversion = Input("ClientInMessage", v)
       \/ \E v \in WireExporterInMessages : conversion = Input("ExporterInMessage", v)
       \/ \E v \in WireExporterOutMessages : conversion = Input("ExporterOutMessage", v)
       \/ \E v \in WireUpdateResponses : conversion = Input("UpdateResponse", v)
       \/ \E v \in UpdateSeqs : conversion = Input("ClientOutMessage", [updates |-> v])
       \/ \E v \in LocalResources : conversion = Input("RoundTrip", v)
       \/ \E p \in Paths, q \in Paths :
             conversion = Input("numeric_cmp", [self |-> p, other |-> q])

Apply(fn, r) ==
    /\ conversion.op = "input"
    /\ conversion.fn = fn
    /\ conversion' = Output(r)
    /\ UNCHANGED <<pc, state, pending, queue, output, step, sent, received, nextClient,
                   nInputs, app>>

\* The conversion of a Resource to the wire and back
RoundTrip(r) ==
    LET wire == ResourceInto(r) IN
    IF wire.ok THEN ResourceTryFrom(wire.value) ELSE wire

ConvertMapValue == Apply("MapValue", MapValueTryFrom(conversion.input))
ConvertResource == Apply("Resource", ResourceTryFrom(conversion.input))
ConvertPlace == Apply("Place", PlaceTryFrom(conversion.input))
ConvertSubscribe == Apply("Subscribe", SubscribeTryFrom(conversion.input))
ConvertClientInMessage == Apply("ClientInMessage", ClientInMsgTryFrom(conversion.input))
ConvertExporterInMessage ==
    Apply("ExporterInMessage", ExporterInMessageTryFrom(conversion.input))
ConvertExporterOutMessage ==
    Apply("ExporterOutMessage", ExporterOutMessageTryFrom(conversion.input))
ConvertUpdateResponse == Apply("UpdateResponse", UpdateResponseTryFrom(conversion.input))
ConvertClientOutMessage == Apply("ClientOutMessage", ClientOutMsgTryFrom(conversion.input))
ResourceRoundTrip == Apply("RoundTrip", RoundTrip(conversion.input))
NumericCmp ==
    Apply("numeric_cmp", PathNumericCmp(conversion.input.self, conversion.input.other))

NextConv ==
    \/ ConvertMapValue
    \/ ConvertResource
    \/ ConvertPlace
    \/ ConvertSubscribe
    \/ ConvertClientInMessage
    \/ ConvertExporterInMessage
    \/ ConvertExporterOutMessage
    \/ ConvertUpdateResponse
    \/ ConvertClientOutMessage
    \/ ResourceRoundTrip
    \/ NumericCmp

ConvSpec == InitConv /\ [][NextConv]_vars

\* ------------------------------------------------------ the sync counter
\* A SyncId at its default or on its way, up to the largest value of its
\* width, and next() called on it; `conversion` keeps the counter and the
\* ids handed out.
SyncIdStarts == (1..10) \cup {U64Max - k : k \in 0..9}

InitSync ==
    /\ pc = "start"
    /\ state = Disconnected
    /\ pending = NoPending
    /\ queue = <<>>
    /\ output = <<>>
    /\ step = Step("start", NoMsg, Disconnected, 0)
    /\ sent = [c \in {} |-> <<>>]
    /\ received = [c \in {} |-> <<>>]
    /\ nextClient = 1
    /\ nInputs = 0
    /\ app = AppNew
    /\ \E id \in SyncIdStarts : conversion = [op |-> "sync", id |-> id, returned |-> <<>>]

\* sync_id.next()
SyncIdCall ==
    /\ conversion.op = "sync"
    /\ Len(conversion.returned) < MaxSyncCalls
    /\ LET n == SyncIdNext(conversion.id) IN
       conversion' = [conversion EXCEPT !.id = n.counter,
                                        !.returned = Append(@, n.id)]
    /\ UNCHANGED <<pc, state, pending, queue, output, step, sent, received,
                   nextClient, nInputs, app>>

NextSync == SyncIdCall
SyncSpec == InitSync /\ [][NextSync]_vars

\* ------------------------------------------- the GUI under a free session
\* The events update() is given, whatever session sends them.  The names
\* hold numerals, so that the order by numerals and the order by
\* characters differ; a place comes with its acquired resources out of
\* order or with none, a resource available or not.
GuiNames == {<<"a">>, <<"r", "2">>, <<"r", "1", "0">>}
GuiPlaces ==
    [name : GuiNames,
     acquired_resources : {<<>>, << <<"r", "1", "0">>, <<"r", "2">> >>}]
GuiPaths ==
    [exporter_name : {None}, group_name : {<<"a">>},
     resource_name : {<<"r", "2">>, <<"r", "1", "0">>}]
GuiResources == [path : GuiPaths, available : BOOLEAN]
\* Lists of the coordinator, keyed by name, in the order it sends them
GuiPlaceLists ==
    {<<>>,
     <<[name |-> <<"r", "1", "0">>, acquired_resources |-> <<>>],
       [name |-> <<"a">>, acquired_resources |-> <<>>]>>}
GuiReservationLists ==
    {<<>>, <<[owner |-> <<"b">>], [owner |-> <<"a">>]>>}

\* The shell before or after NotConnectedMsg::Connect, no list yet
InitGui ==
    /\ pc = "start"
    /\ state = Disconnected
    /\ pending = NoPending
    /\ queue = <<>>
    /\ output = <<>>
    /\ step = Step("start", NoMsg, Disconnected, 0)
    /\ sent = [c \in {} |-> <<>>]
    /\ received = [c \in {} |-> <<>>]
    /\ nextClient = 1
    /\ nInputs = 0
    /\ conversion = NoConv
    /\ \/ app = AppNew
       \/ app = [AppNew EXCEPT !.connection_sender = TRUE, !.state = "Connecting"]

\* update(AppMsg::ConnectionEvent(ev)); `conversion` keeps the event.
GuiUpdate(ev) ==
    /\ app' = AppUpdate(app, ev)
    /\ conversion' = [op |-> "update", event |-> ev]
    /\ UNCHANGED <<pc, state, pending, queue, output, step, sent, received,
                   nextClient, nInputs>>

UpdateReceiveReady == GuiUpdate(ReceiveReady)
UpdateConnected == GuiUpdate(ConnectedEv(<<"a">>))
UpdateDisconnected == GuiUpdate(DisconnectedEv(None))
UpdateNonCriticalError == GuiUpdate(NonCriticalErrorEv(TonicTransport))
UpdatePlace == \E p \in GuiPlaces : GuiUpdate([type |-> "Place", value |-> p])
UpdateDeletePlace == \E n \in GuiNames : GuiUpdate([type |-> "DeletePlace", value |-> n])
UpdatePlaces == \E l \in GuiPlaceLists : GuiUpdate(PlacesEv(l))
UpdateResource == \E r \in GuiResources : GuiUpdate([type |-> "Resource", value |-> r])
UpdateDeleteResource ==
    \E q \in GuiPaths : GuiUpdate([type |-> "DeleteResource", value |-> q])
UpdateReservations == \E l \in GuiReservationLists : GuiUpdate(ReservationsEv(l))

NextGui ==
    \/ UpdateReceiveReady
    \/ UpdateConnected
    \/ UpdateDisconnected
    \/ UpdateNonCriticalError
    \/ UpdatePlace
    \/ UpdateDeletePlace
    \/ UpdatePlaces
    \/ UpdateResource
    \/ UpdateDeleteResource
    \/ UpdateReservations

GuiSpec == InitGui /\ [][NextGui]_vars

\* ======================================================================
\* Properties
\* ======================================================================
\* The iteration in `step` has run to its end: the task is back at the
\* select.
AtSelect == pc = "select"
InFlight == pc \in {"connect_new", "connect_stream"}
MsgStep(t) == step.kind = "msg" /\ step.msg.type = t
OneEvent(t) == Len(Emitted) = 1 /\ Emitted[1].type = t
\* A string that is empty or holds whitespace only.
Blank(s) == \A i \in 1..Len(s) : s[i] \in Whitespace
ConnectStep(pre) ==
    MsgStep("Connect") /\ step.pre.tag = pre /\ ~Blank(step.msg.f1)
BlankConnectStep(pre) ==
    MsgStep("Connect") /\ step.pre.tag = pre /\ Blank(step.msg.f1)

\* C1: ReceiveReady is the first event the task emits and it is emitted
\* exactly once: once the task is past its start the first event of the
\* output is ReceiveReady, and no later event is, whatever commands, frames
\* and ticks followed.
C1_ReceiveReadyFirstOnce ==
    /\ pc = "start" => output = <<>>
    /\ pc # "start" => Len(output) >= 1 /\ output[1].type = "ReceiveReady"
    /\ \A i \in 2..Len(output) : output[i].type # "ReceiveReady"

C1_Witness ==
    /\ AtSelect
    /\ nInputs = MaxInputs
    /\ Len(output) >= 3
    /\ step.kind = "out_msg"

\* C2: a dequeued Connect with a non-blank address, in either state, emits
\* nothing while connect() is raced against the timeout (which can fire as
\* long as connect() has not returned), and ends with exactly one event:
\* Connected{address} with the state Connected, or Disconnected with a
\* Critical error with the state Disconnected.
C2_ConnectOneOutcome ==
    (MsgStep("Connect") /\ ~Blank(step.msg.f1)) =>
        /\ InFlight => Emitted = <<>> /\ ENABLED ConnectTimeout
        /\ pc = "connect_ok" => Emitted = <<>>
        /\ AtSelect =>
             \/ /\ state.tag = "Connected"
                /\ OneEvent("Connected")
                /\ Emitted[1].address = step.msg.f1
             \/ /\ state.tag = "Disconnected"
                /\ OneEvent("Disconnected")
                /\ Len(Emitted[1].error) = 1
                /\ Emitted[1].error[1].criticality = "Critical"

C2_Witness ==
    /\ AtSelect
    /\ ConnectStep("Connected")
    /\ state.tag = "Disconnected"
    /\ Emitted[1].error[1] = TimeoutReached

\* C3: a Connect with an empty or whitespace-only address handled while
\* Disconnected emits exactly one Disconnected event that carries an
\* error, starts no connect attempt (no facade call, nothing in flight)
\* and leaves the state Disconnected.
C3_BlankConnectDisconnected ==
    BlankConnectStep("Disconnected") =>
        /\ AtSelect
        /\ OneEvent("Disconnected")
        /\ Emitted[1].error # None
        /\ step.calls = <<>>
        /\ pending = NoPending
        /\ state = Disconnected

C3_Witness ==
    /\ BlankConnectStep("Disconnected")
    /\ step.msg.f1 = <<" ">>
    /\ AtSelect

\* C4: a Connect with an empty or whitespace-only address handled while
\* Connected emits exactly one NonCriticalError and changes nothing else:
\* the state keeps the same client, sender, stream and sync id, and no
\* connect attempt is started.
C4_BlankConnectConnected ==
    BlankConnectStep("Connected") =>
        /\ AtSelect
        /\ OneEvent("NonCriticalError")
        /\ step.calls = <<>>
        /\ pending = NoPending
        /\ state = step.pre
        /\ LiveStreams = {step.pre.client_out_stream}

C4_Witness ==
    /\ BlankConnectStep("Connected")
    /\ step.msg.f1 = <<" ">>
    /\ AtSelect

\* C5: a Connect with a non-blank address handled while Connected ends
\* like one handled while Disconnected: after success the state holds the
\* client, sender, stream and sync id of the new connect() call and
\* nothing of the old session lives; after failure or timeout the state is
\* Disconnected and the old session is gone too.
C5_ReconnectReplaces ==
    (ConnectStep("Connected") /\ AtSelect) =>
        \/ /\ state.tag = "Connected"
           /\ state.client # step.pre.client
           /\ state.client_in_sender = state.client
           /\ state.client_out_stream = state.client
           /\ state.sync_id = SyncIdNext(SyncIdDefault).counter
           /\ sent[state.client] = Handshake(SyncIdDefault)
           /\ LiveClients = {state.client}
           /\ LiveStreams = {state.client}
        \/ /\ state = Disconnected
           /\ LiveClients = {}
           /\ LiveStreams = {}

C5_Witness ==
    /\ ConnectStep("Connected")
    /\ AtSelect
    /\ state.tag = "Connected"
    /\ state.client = 2
    /\ step.pre.client = 1

\* C6: in every reachable state, the states inside the handling of a
\* Connect by a Connected session included, at most one duplex client
\* stream is live.
C6_AtMostOneLiveStream == Cardinality(LiveStreams) <= 1

\* C7: a Connect that arrives in the channel while an earlier connect
\* attempt is in flight supersedes it: from then on the earlier attempt
\* emits no outcome of its own.
C7_LaterConnectSupersedes ==
    [][(/\ pc \in {"connect_new", "connect_stream", "connect_ok"}
        /\ \E i \in 1..Len(queue) : queue[i].type = "Connect")
       => output' = output]_vars

\* C8: a Disconnect handled while Connected emits exactly one Disconnected
\* event without an error, leaves the state Disconnected with the
\* session's handles dropped, and starts no connect attempt.
C8_Disconnect ==
    (MsgStep("Disconnect") /\ step.pre.tag = "Connected") =>
        /\ AtSelect
        /\ OneEvent("Disconnected")
        /\ Emitted[1].error = None
        /\ state = Disconnected
        /\ LiveClients = {}
        /\ LiveStreams = {}
        /\ step.calls = <<>>
        /\ pending = NoPending

C8_Witness ==
    /\ MsgStep("Disconnect")
    /\ step.pre.tag = "Connected"
    /\ AtSelect

\* C9: while Disconnected, a command other than Connect is consumed
\* without a facade call, without a change of state and with the task back
\* at the select for the next command; and a state Connected that followed
\* a state Disconnected was reached by handling a Connect.
C9_DisconnectedIgnoresOthers ==
    /\ (step.kind = "msg" /\ step.pre.tag = "Disconnected" /\ step.msg.type # "Connect") =>
          /\ AtSelect
          /\ step.calls = <<>>
          /\ state = Disconnected
          /\ pending = NoPending
    /\ (state.tag = "Connected" /\ step.pre.tag = "Disconnected") =>
          ConnectStep("Disconnected")

C9_Witness ==
    /\ step.kind = "msg"
    /\ step.pre.tag = "Disconnected"
    /\ step.msg.type = "GetReservations"
    /\ Len(queue) = 1
    /\ nInputs = MaxInputs

\* C10: while Connected, a command one of whose string fields is empty or
\* whitespace-only is answered by exactly one NonCriticalError, without a
\* facade call, and the state stays as it was.
AnyFieldBlank(msg) == \E f \in DOMAIN msg \ {"type"} : Blank(msg[f])

C10_BlankFieldRejected ==
    (/\ step.kind = "msg"
     /\ step.pre.tag = "Connected"
     /\ step.msg.type \in UnitMsgs \cup {"CancelReservation"}
     /\ AnyFieldBlank(step.msg)) =>
        /\ AtSelect
        /\ OneEvent("NonCriticalError")
        /\ step.calls = <<>>
        /\ state = step.pre

C10_Witness ==
    /\ step.kind = "msg"
    /\ step.pre.tag = "Connected"
    /\ step.msg = Msg3("AddPlaceTag", <<"a">>, <<"a">>, <<" ">>)
    /\ AtSelect

\* The facade calls of commands other than Connect and of ticks hand their
\* Result to the `match` that sends the value or calls the classifier; the
\* calls of a connect attempt (new, client_stream) have the outcome of C2.
\* The last result of an iteration is the only one that can be an error.
LastResult == step.results[Len(step.results)]
CallFailed == step.results # <<>> /\ ~LastResult.ok
Fatal(e) ==
    \/ e.kind = "TonicTransport"
    \/ e.kind = "TonicStatus" /\ e.code \in {"Unavailable", "DeadlineExceeded"}
OneCriticalDisconnected(events) ==
    /\ Len(events) = 1
    /\ events[1].type = "Disconnected"
    /\ Len(events[1].error) = 1
    /\ events[1].error[1].criticality = "Critical"

\* C11: when a facade call made while Connected, for a command or for a
\* tick, returns a remote status Unavailable or DeadlineExceeded, the
\* iteration emits exactly one Disconnected event carrying a Critical error
\* and leaves the state Disconnected with the session's handles dropped;
\* and the classifier, handed a transport failure in a Connected state
\* (no call of a command or a tick returns one), answers the same way.
C11_FatalErrorDisconnects ==
    /\ (CallFailed /\ Fatal(LastResult.error)) =>
          /\ AtSelect
          /\ step.pre.tag = "Connected"
          /\ step.kind \in {"msg", "tick"}
          /\ OneCriticalDisconnected(Emitted)
          /\ state = Disconnected
          /\ LiveClients = {}
          /\ LiveStreams = {}
    /\ state.tag = "Connected" =>
          LET h == HandleGrpcClientError(state, TonicTransport) IN
          /\ OneCriticalDisconnected(h.events)
          /\ h.state = Disconnected

C11_Witness ==
    /\ CallFailed
    /\ step.kind = "tick"
    /\ LastResult.error = TonicStatus("DeadlineExceeded")
    /\ step.pre.tag = "Connected"
    /\ state = Disconnected

\* C12: when a facade call made while Connected, for a command or for a
\* tick, returns a message-conversion failure or a remote status whose
\* code is none of Ok, Unavailable and DeadlineExceeded, the iteration
\* emits exactly one NonCriticalError and the state is the one the
\* iteration started in: Connected, with the same client, sender, stream
\* and sync id counter.
Recoverable(e) ==
    \/ e.kind = "MsgConversion"
    \/ e.kind = "TonicStatus" /\ e.code \notin {"Ok", "Unavailable", "DeadlineExceeded"}

C12_RecoverableErrorReported ==
    (CallFailed /\ Recoverable(LastResult.error)) =>
        /\ AtSelect
        /\ step.pre.tag = "Connected"
        /\ OneEvent("NonCriticalError")
        /\ Emitted[1].error.criticality = "NonCritical"
        /\ state = step.pre
        /\ LiveClients = {step.pre.client}
        /\ LiveStreams = {step.pre.client_out_stream}

C12_Witness ==
    /\ CallFailed
    /\ MsgStep("CancelReservation")
    /\ Len(step.results) = 2
    /\ LastResult.error = MsgConversion
    /\ state.tag = "Connected"

C12_WitnessStatus ==
    /\ CallFailed
    /\ MsgStep("AddPlaceTag")
    /\ LastResult.error = TonicStatus("InvalidArgument")
    /\ state.tag = "Connected"

\* C13: when a facade call made while Connected returns an error whose
\* remote status code is Ok, the classifier emits nothing and the state
\* is the one the iteration started in: the session stays Connected.
C13_StatusOkIgnored ==
    (CallFailed /\ LastResult.error = TonicStatus("Ok")) =>
        /\ AtSelect
        /\ Emitted = <<>>
        /\ state = step.pre
        /\ state.tag = "Connected"
        /\ HandleGrpcClientError(state, LastResult.error).events = <<>>

C13_Witness ==
    /\ CallFailed
    /\ step.kind = "tick"
    /\ LastResult.error = TonicStatus("Ok")
    /\ state.tag = "Connected"
    /\ Len(output) = 2

\* C14: when the inbound half of the duplex stream yields an error item
\* (a transport-level failure of the stream) while Connected, the
\* iteration emits one Disconnected event with a Critical error and leaves
\* the state Disconnected.
StreamErrorStep == step.kind = "out_msg" /\ ~step.msg.item.ok

C14_StreamErrorDisconnects ==
    StreamErrorStep =>
        /\ OneCriticalDisconnected(Emitted)
        /\ state = Disconnected

\* An inbound frame (an Ok item of the stream) and what its conversion
\* has to make of it: a frame with an update whose kind is unset does not
\* convert; the others yield one event per update.
FrameStep == step.kind = "out_msg" /\ step.msg.item.ok
Malformed(item) == \E i \in 1..Len(item.updates) : item.updates[i].kind = "None"
EventType(kind) ==
    CASE kind = "Resource" -> "Resource"
      [] kind = "DelResource" -> "DeleteResource"
      [] kind = "Place" -> "Place"
      [] kind = "DelPlace" -> "DeletePlace"
EventsOf(item) ==
    IF ~item.ok \/ Malformed(item) THEN <<>>
    ELSE [i \in 1..Len(item.updates) |->
            [type |-> EventType(item.updates[i].kind), value |-> item.updates[i].value]]
\* The items read from the stream of the iteration before the one `step`
\* records.
EarlierItems ==
    LET r == received[step.pre.client_out_stream] IN SubSeq(r, 1, Len(r) - 1)

\* C15: an inbound frame that fails conversion is dropped: the iteration
\* emits nothing and leaves the state as it was; and a well-formed frame
\* read from the same stream after such a frame is converted and
\* delivered, one event per update.
C15_MalformedFrameDropped ==
    /\ (FrameStep /\ Malformed(step.msg.item)) =>
          /\ AtSelect
          /\ Emitted = <<>>
          /\ state = step.pre
    /\ (/\ FrameStep
        /\ ~Malformed(step.msg.item)
        /\ \E i \in 1..Len(EarlierItems) : Malformed(EarlierItems[i])) =>
          /\ Emitted = EventsOf(step.msg.item)
          /\ state = step.pre

C15_Witness ==
    /\ FrameStep
    /\ ~Malformed(step.msg.item)
    /\ Len(step.msg.item.updates) = 2
    /\ Len(EarlierItems) = 1
    /\ EarlierItems[1].ok
    /\ Malformed(EarlierItems[1])
    /\ EarlierItems[1].updates[1].kind = "Place"

\* C16: a frame that converts, with the updates u1..un, makes the
\* iteration emit exactly n events, the i-th the event of ui, with
\* nothing else among them: reading an item from the stream of the session
\* appends the events of that item to the output, so the events of the
\* frames follow one another in the order the frames were read; and no
\* other step of the task adds an update event.
IsUpdateEv(e) == e.type \in {"Resource", "DeleteResource", "Place", "DeletePlace"}

Last(q) == q[Len(q)]

C16_UpdatesInOrder ==
    [][/\ \A c \in DOMAIN received :
            received'[c] # received[c] =>
                /\ state.tag = "Connected" /\ c = state.client_out_stream
                /\ received'[c] = Append(received[c], Last(received'[c]))
                /\ output' = output \o EventsOf(Last(received'[c]))
                /\ Len(output') - Len(output) = Len(EventsOf(Last(received'[c])))
       /\ (\A c \in DOMAIN received : received'[c] = received[c]) =>
            \A i \in 1..Len(output') :
                IsUpdateEv(output'[i]) => i <= Len(output) /\ output[i] = output'[i]
      ]_vars

C16_Witness ==
    /\ FrameStep
    /\ Len(received[1]) = 2
    /\ received[1][1].updates = <<ProtoUpdate("DelPlace"), ProtoUpdate("Resource")>>
    /\ received[1][2].updates = <<ProtoUpdate("Place"), ProtoUpdate("DelResource")>>
    /\ Len(output) = 6

\* C17: the outbound half of every connect attempt that got its client
\* starts with StartupDone, Subscribe(AllPlaces = true),
\* Subscribe(AllResources = true), Sync(id = 1), in this order; the four
\* are there while client_stream is awaited, the stream not yet opened,
\* and so before any item of its inbound half is read.
FourFrames ==
    <<[type |-> "StartupDone", version |-> <<"1">>],
      [type |-> "Subscribe", kind |-> "AllPlaces", flag |-> TRUE],
      [type |-> "Subscribe", kind |-> "AllResources", flag |-> TRUE],
      [type |-> "Sync", id |-> 1]>>

C17_HandshakeOrder ==
    /\ \A c \in DOMAIN sent :
          /\ Len(sent[c]) >= 4
          /\ SubSeq(sent[c], 1, 4) = FourFrames
    /\ DOMAIN received = DOMAIN sent
    /\ pc = "connect_stream" =>
          /\ pending.client \in DOMAIN sent
          /\ sent[pending.client] = FourFrames
          /\ pending.stream = 0
          /\ received[pending.client] = <<>>
    /\ pc = "connect_new" => pending.client = 0

C17_Witness ==
    /\ pc = "connect_stream"
    /\ pending.client = 2
    /\ state.tag = "Connected"
    /\ sent[2] = FourFrames
    /\ pending.stream = 0

\* C18: within one session the k-th Sync frame on the outbound half
\* carries the id k: the Sync of the handshake has id 1, the Sync a first
\* Sync command enqueues has id 2, and so on, strictly increasing and
\* without a repeat below the point of saturation; as long as the
\* receiver of the outbound half is there, the counter the session holds
\* is the id the next Sync frame will carry.
IsSync(f) == f.type = "Sync"
SyncsOf(c) == SelectSeq(sent[c], IsSync)

C18_KthSyncHasIdK ==
    /\ \A c \in DOMAIN sent :
          \A k \in 1..Len(SyncsOf(c)) : SyncsOf(c)[k].id = k
    /\ (state.tag = "Connected" /\ ~state.sender_closed) =>
          state.sync_id = Len(SyncsOf(state.client_in_sender)) + 1
    /\ (MsgStep("Sync") /\ step.pre.tag = "Connected" /\ ~state.sender_closed) =>
          /\ Emitted = <<>>
          /\ step.calls = <<>>
          /\ state = [step.pre EXCEPT !.sync_id = step.pre.sync_id + 1]
          /\ Last(sent[step.pre.client_in_sender]) =
                [type |-> "Sync", id |-> step.pre.sync_id]

C18_Witness ==
    /\ MsgStep("Sync")
    /\ step.pre.tag = "Connected"
    /\ 1 \in DOMAIN sent
    /\ Len(sent[1]) = 5
    /\ sent[1][4] = [type |-> "Sync", id |-> 1]
    /\ sent[1][5] = [type |-> "Sync", id |-> 2]

\* C19: every session that is established, from Disconnected or in
\* place of a Connected one, starts its sync id counter at 1 whatever the
\* counter of an earlier session had reached: the first Sync frame of
\* every outbound half, the one of the handshake, has id 1, and the
\* session starts with the counter one past it.
C19_NewSessionResetsSyncId ==
    /\ \A c \in DOMAIN sent :
          /\ SyncsOf(c) # <<>>
          /\ SyncsOf(c)[1].id = 1
          /\ sent[c][4] = [type |-> "Sync", id |-> 1]
    /\ (MsgStep("Connect") /\ AtSelect /\ state.tag = "Connected"
        /\ ~Blank(step.msg.f1)) =>
          /\ state.sync_id = 2
          /\ state.client = nextClient - 1
          /\ SyncsOf(state.client_in_sender) = <<[type |-> "Sync", id |-> 1]>>

C19_Witness ==
    /\ ConnectStep("Connected")
    /\ AtSelect
    /\ step.pre.sync_id = 2
    /\ state.tag = "Connected"
    /\ state.client = 2
    /\ sent[2][4] = [type |-> "Sync", id |-> 1]

\* C20: no two Sync frames enqueued in the life of the process, on the
\* same outbound half or on those of two sessions, carry the same id.
SyncFrames ==
    UNION {{<<c, i>> : i \in {j \in 1..Len(sent[c]) : IsSync(sent[c][j])}} :
              c \in DOMAIN sent}

C20_SyncIdNeverReused ==
    \A p \in SyncFrames, q \in SyncFrames :
        p # q => sent[p[1]][p[2]].id # sent[q[1]][q[2]].id

\* C20, amended: no two Sync frames enqueued on the outbound half of one
\* session carry the same id (below the point of saturation); the
\* sessions of one process each count from 1.
C20_SyncIdUniqueInSession ==
    \A p \in SyncFrames, q \in SyncFrames :
        (p # q /\ p[1] = q[1]) => sent[p[1]][p[2]].id # sent[q[1]][q[2]].id

C20_Witness ==
    /\ \E p \in SyncFrames, q \in SyncFrames : p # q /\ p[1] = q[1]
    /\ MsgStep("Sync")
    /\ nInputs = MaxInputs
    /\ queue = <<>>

\* C21: a successful Connect emits Connected{address} as the one event of
\* the attempt; the GUI shell, handling that event, submits GetReservations
\* exactly once, into a channel that is empty and takes it; and the
\* session, handling GetReservations while Connected, makes one
\* get_reservations call and on its success emits Reservations as the
\* next event.  So Reservations follows Connected, for the first connect
\* and for every later one.
AppHandles(t) ==
    /\ app'.seen = app.seen + 1
    /\ app.seen < Len(output)
    /\ output[app.seen + 1].type = t

NoCallTwice(calls) ==
    \A i \in 1..Len(calls), j \in 1..Len(calls) :
        i # j => calls[i].method # calls[j].method

C22_NoRetryNoReconnect ==
    [][/\ (pc # "connect_new" /\ pc' = "connect_new") =>
            /\ pc = "select"
            /\ queue # <<>>
            /\ Head(queue).type = "Connect"
            /\ queue' = Tail(queue)
            /\ step'.msg = Head(queue)
            /\ step'.calls = <<>>
       /\ (state.tag = "Disconnected" /\ state'.tag = "Connected") =>
            /\ pc = "connect_ok"
            /\ step.msg.type = "Connect"
            /\ step' = step
       /\ NoCallTwice(step'.calls)
       /\ Len(step'.calls) <= 2
       /\ (state.tag = "Connected" /\ state'.tag = "Disconnected") =>
            pc' = "select" /\ pending' = NoPending
       /\ (pc \in {"connect_new", "connect_stream"} /\ pc' = "select") =>
            state'.tag = "Disconnected" /\ pending' = NoPending
      ]_vars

C22_Witness ==
    /\ AtSelect
    /\ ConnectStep("Disconnected")
    /\ state = Disconnected
    /\ step.calls = <<Call("new", <<step.msg.f1>>)>>
    /\ queue = <<>>
    /\ nInputs = MaxInputs

\* C23: no invalid-input rejection and no conversion failure reaches the
\* GUI in a Disconnected event, and none ends in the state Disconnected
\* from a state Connected.
InvalidInputShort == <<"connection-msg-invalid-input">>
InvalidInputStep ==
    /\ step.kind = "msg"
    /\ \/ step.msg.type = "Connect" /\ Blank(step.msg.f1)
       \/ /\ step.pre.tag = "Connected"
          /\ step.msg.type \in UnitMsgs \cup {"CancelReservation"}
          /\ AnyFieldBlank(step.msg)
ConversionFailureStep ==
    \/ CallFailed /\ LastResult.error.kind = "MsgConversion"
    \/ FrameStep /\ Malformed(step.msg.item)

C23_NeverDisconnectedEvent ==
    /\ \A i \in 1..Len(output) :
          (output[i].type = "Disconnected" /\ output[i].error # <<>>) =>
              /\ output[i].error[1].short # InvalidInputShort
              /\ output[i].error[1].short # <<"Message conversion">>
    /\ (InvalidInputStep \/ ConversionFailureStep) =>
          \A i \in 1..Len(Emitted) : Emitted[i].type = "NonCriticalError"

\* C23, amended: an invalid-input rejection or a conversion failure never
\* changes the state of the session and is never reported as Critical.
\* While Connected it reaches the GUI as one NonCriticalError event, or as
\* no event for an inbound frame that does not convert; a blank Connect
\* handled while Disconnected is reported in a Disconnected event that
\* carries the NonCritical invalid-input error, the state staying
\* Disconnected.
C23_NeverEscalates ==
    (InvalidInputStep \/ ConversionFailureStep) =>
        /\ AtSelect
        /\ state = step.pre
        /\ pending = NoPending
        /\ Len(Emitted) <= 1
        /\ \A i \in 1..Len(Emitted) :
              /\ \/ Emitted[i].type = "NonCriticalError"
                    /\ step.pre.tag = "Connected"
                    /\ Emitted[i].error.criticality = "NonCritical"
                 \/ /\ Emitted[i].type = "Disconnected"
                    /\ step.pre.tag = "Disconnected"
                    /\ step.msg.type = "Connect"
                    /\ Len(Emitted[i].error) = 1
                    /\ Emitted[i].error[1].criticality = "NonCritical"
                    /\ Emitted[i].error[1].short = InvalidInputShort
        /\ (FrameStep /\ Malformed(step.msg.item)) => Emitted = <<>>
        /\ step.pre.tag = "Connected" /\ ~FrameStep => Len(Emitted) = 1

C23_Witness ==
    /\ CallFailed
    /\ LastResult.error.kind = "MsgConversion"
    /\ MsgStep("GetPlaces")
    /\ state.tag = "Connected"
    /\ Len(output) = 3
    /\ output[3].type = "NonCriticalError"
    /\ output[3].error.short = <<"Message conversion">>

\* C24: commands are handled in submission order and one at a time.  A
\* submission puts the command behind those already queued and handles
\* nothing; a command is taken only at the select, and it is the oldest
\* one queued; while a connect attempt is in flight (it belongs to the
\* Connect being handled) no command is taken, no frame and no tick is
\* handled, so no second attempt starts; every iteration starts where the
\* output of the one before ends, and events are only ever appended.
C24_InOrderOneAtATime ==
    [][ /\ queue' # queue =>
             \/ /\ \E m \in ConnectionMsg : queue' = Append(queue, m)
                /\ pc' = pc /\ step' = step /\ output' = output /\ state' = state
             \/ /\ pc = "select" /\ queue # <<>>
                /\ queue' = Tail(queue)
                /\ step'.kind = "msg" /\ step'.msg = Head(queue)
        /\ (step'.kind # step.kind \/ step'.msg # step.msg \/ step'.mark # step.mark) =>
             /\ pc = "select"
             /\ step'.mark = Len(output)
             /\ step'.kind = "msg" => queue # <<>> /\ step'.msg = Head(queue)
        /\ pc \in {"connect_new", "connect_stream", "connect_ok"} =>
             /\ MsgStep("Connect") /\ pending.address = step.msg.f1
             /\ step'.kind = step.kind /\ step'.msg = step.msg /\ step'.mark = step.mark
             /\ \A c \in DOMAIN received : received'[c] = received[c]
             /\ Len(queue') >= Len(queue)
             /\ pc' \in {"connect_new", "connect_stream", "connect_ok"} =>
                    pending'.address = pending.address
        /\ output' # output =>
             /\ Len(output') > Len(output)
             /\ SubSeq(output', 1, Len(output)) = output
             /\ step'.mark <= Len(output)
      ]_vars
\* A Connect attempt is in flight, its stream not yet open, while a
\* command submitted after it waits in the channel.
C24_Witness ==
    /\ pc = "connect_stream"
    /\ MsgStep("Connect")
    /\ queue = <<Msg0("Disconnect")>>
    /\ output = <<ReceiveReady>>

\* The commands a handler of the GUI shell may submit in one go.
GuiSubmissions ==
    {<<>>, <<Msg0("GetReservations")>>, <<Msg0("Disconnect")>>,
     <<Msg0("Sync"), Msg0("GetReservations")>>}
        \cup {<<Msg1("Connect", a)>> : a \in Addresses}
IsPrefix(p, q) == Len(p) <= Len(q) /\ SubSeq(q, 1, Len(p)) = p

\* C25: submitting a command never blocks the GUI and never fails it: a
\* handler of the shell that submits commands always runs to its end and
\* leaves the session where it is; the channel never holds more than its
\* capacity; the commands it held stay where they were, the accepted ones
\* behind them in the order submitted; a submission to a full channel
\* changes nothing in it; and the session takes the oldest command only.
C25_SendDropsWhenFull ==
    [][ /\ Len(queue') <= MaxQueue
        /\ app' # app =>
             /\ UNCHANGED <<pc, state, pending, output, step, sent, received>>
             /\ IsPrefix(queue, queue')
             /\ \E msgs \in GuiSubmissions :
                  /\ Len(queue') - Len(queue) <= Len(msgs)
                  /\ IsPrefix(SubSeq(queue', Len(queue) + 1, Len(queue')), msgs)
                  /\ Len(queue') < MaxQueue => queue' = queue \o msgs
             /\ Len(queue) = MaxQueue => queue' = queue
        /\ app' = app /\ queue' # queue =>
             queue # <<>> /\ queue' = Tail(queue) /\ step'.msg = Head(queue)
      ]_vars
\* A Connect was dropped by a full channel: the shell is Connecting and
\* has seen every event, the channel is empty again, no attempt is in
\* flight, and the command the session handled last is not a Connect.
C25_Witness ==
    /\ app.state = "Connecting"
    /\ app.seen = Len(output)
    /\ queue = <<>>
    /\ pc = "select"
    /\ state.tag = "Disconnected"
    /\ step.kind = "msg" /\ step.msg.type = "GetReservations"

\* The conversion that ran, its input and its result
Converting(fn) == conversion.op = "output" /\ conversion.fn = fn
\* The wire types whose conversion looks for a oneof `kind`
KindTypes ==
    {"ClientInMessage", "ExporterInMessage", "ExporterOutMessage", "UpdateResponse",
     "Subscribe", "MapValue"}
\* A result that is an error and carries no value
IsConversionError(r) == ~r.ok /\ DOMAIN r = {"ok", "msg"}
\* A result that is a value
IsValue(r) == r.ok /\ DOMAIN r = {"ok", "value"}

\* Wire values none of whose oneof kinds, and none of whose paths, is unset
RECURSIVE CompleteMapValue(_)
CompleteMapValue(v) ==
    /\ v.kind # None
    /\ v.kind[1].tag = "ArrayValue" =>
           \A i \in 1..Len(v.kind[1].val) : CompleteMapValue(v.kind[1].val[i])
CompleteResource(r) ==
    /\ r.path # None
    /\ \A k \in DOMAIN r.params : CompleteMapValue(r.params[k])
    /\ \A k \in DOMAIN r.extra : CompleteMapValue(r.extra[k])
Complete(fn, v) ==
    CASE fn = "MapValue" -> CompleteMapValue(v)
      [] fn = "Resource" -> CompleteResource(v)
      [] fn \in {"Subscribe", "ExporterOutMessage"} -> v.kind # None
      [] fn = "ClientInMessage" ->
           /\ v.kind # None
           /\ v.kind[1].tag = "Subscribe" => v.kind[1].val.kind # None
      [] fn \in {"ExporterInMessage", "UpdateResponse"} ->
           /\ v.kind # None
           /\ v.kind[1].tag = "Resource" => CompleteResource(v.kind[1].val)

\* C26: a wire-to-local conversion returns a ConversionError and no value
\* when the value it is given lacks its required field (the kind of a
\* ClientInMessage, ExporterInMessage, ExporterOutMessage, UpdateResponse,
\* Subscribe or MapValue, the path of a Resource), and it returns a value
\* when no kind and no path is unset anywhere in what it is given.
C26_MissingFieldIsConversionError ==
    \A fn \in KindTypes \cup {"Resource"} :
        Converting(fn) =>
            /\ (fn \in KindTypes /\ conversion.input.kind = None) =>
                   IsConversionError(conversion.out)
            /\ (fn = "Resource" /\ conversion.input.path = None) =>
                   IsConversionError(conversion.out)
            /\ Complete(fn, conversion.input) => IsValue(conversion.out)
            /\ IsConversionError(conversion.out) \/ IsValue(conversion.out)
\* A Resource without a path, its maps in order, was given to the
\* conversion, which returned the error.
C26_Witness ==
    /\ Converting("Resource")
    /\ conversion.input.path = None
    /\ conversion.input.params = [k \in {"k"} |-> WireBool]
    /\ conversion.out = ConversionError("Resoure path is None")

\* C27: conversions of arrays and maps are all-or-nothing.  A
\* ClientOutMessage one of whose updates has its kind unset, a MapValue
\* array with an incomplete element, a Resource one of whose params or
\* extra entries is incomplete (its kind unset, or an element of a nested
\* array with its kind unset) does not convert; and a result has an entry
\* for every entry of the input.
C27_AllOrNothing ==
    /\ Converting("ClientOutMessage") =>
          /\ (\E i \in 1..Len(conversion.input.updates) :
                 conversion.input.updates[i].kind = "None") => ~conversion.out.ok
          /\ conversion.out.ok =>
                 Len(conversion.out.value.updates) = Len(conversion.input.updates)
    /\ Converting("MapValue") =>
          (~CompleteMapValue(conversion.input) => IsConversionError(conversion.out))
    /\ Converting("Resource") =>
          /\ (\E k \in DOMAIN conversion.input.params :
                 ~CompleteMapValue(conversion.input.params[k])) =>
                 IsConversionError(conversion.out)
          /\ (\E k \in DOMAIN conversion.input.extra :
                 ~CompleteMapValue(conversion.input.extra[k])) =>
                 IsConversionError(conversion.out)
          /\ conversion.out.ok =>
                 /\ DOMAIN conversion.out.value.params = DOMAIN conversion.input.params
                 /\ DOMAIN conversion.out.value.extra = DOMAIN conversion.input.extra

\* C28: for every Resource r, nested arrays in its maps included, the
\* conversion of r to the wire succeeds, the conversion of that wire value
\* back succeeds, and the Resource it yields has r's path, cls, params,
\* extra, acquired and available.
C28_ResourceRoundTrip ==
    Converting("RoundTrip") =>
        /\ IsValue(conversion.out)
        /\ DOMAIN conversion.out.value =
               {"path", "cls", "params", "extra", "acquired", "available"}
        /\ conversion.out.value.path = conversion.input.path
        /\ conversion.out.value.cls = conversion.input.cls
        /\ conversion.out.value.params = conversion.input.params
        /\ conversion.out.value.extra = conversion.input.extra
        /\ conversion.out.value.acquired = conversion.input.acquired
        /\ conversion.out.value.available = conversion.input.available
\* A Resource with an array in an array among its params, and other
\* values in extra, has made the round trip.
C28_Witness ==
    /\ Converting("RoundTrip")
    /\ conversion.input.params =
           [k \in {"k"} |-> LocalArray(<<LocalBool, LocalArray(<<LocalBool>>)>>)]
    /\ conversion.input.extra = [k \in {"k", "l"} |-> IF k = "k" THEN LocalString ELSE LocalBool]
    /\ conversion.input.path.exporter_name = Some(<<"b">>)
    /\ conversion.out.ok

\* C29: the conversion of a wire Place normalizes `acquired`: absent or
\* the empty string becomes None, a non-empty string s becomes Some(s);
\* every other field, `reservation` included, is copied as it is.
C29_PlaceAcquiredNormalized ==
    Converting("Place") =>
        LET wire == conversion.input
            place == conversion.out.value
        IN /\ IsValue(conversion.out)
           /\ (wire.acquired = <<>> \/ wire.acquired = <<<<>>>>) => place.acquired = <<>>
           /\ (Len(wire.acquired) = 1 /\ Len(wire.acquired[1]) > 0) =>
                  place.acquired = <<wire.acquired[1]>>
           /\ \A f \in {"name", "aliases", "comment", "tags", "acquired_resources",
                        "allowed", "created", "changed", "reservation"} :
                  place[f] = wire[f]
           /\ Len(place.matches) = Len(wire.matches)
           /\ \A i \in 1..Len(wire.matches) :
                  \A f \in {"exporter", "group", "cls", "name", "rename"} :
                      place.matches[i][f] = wire.matches[i][f]
\* A wire Place acquired by "" and reserved with "" was converted: it is
\* acquired by nobody, its reservation is still Some("").
C29_Witness ==
    /\ Converting("Place")
    /\ conversion.input.acquired = <<<<>>>>
    /\ conversion.input.reservation = <<<<>>>>
    /\ Len(conversion.input.matches) = 1
    /\ conversion.out.ok
    /\ conversion.out.value.acquired = <<>>
    /\ conversion.out.value.reservation = <<<<>>>>

\* Ordering::reverse
Reverse(o) == CASE o = Less -> Greater [] o = Greater -> Less [] OTHER -> Equal
AtMost(o) == o \in {Less, Equal}

\* C30: Path::numeric_cmp is a total order, lexicographic over (exporter,
\* group, resource).  A path without exporter is Less than every path with
\* one; two exporters that the numeral-aware comparator tells apart decide
\* the result; with equal exporters the groups decide, and with equal
\* groups too the resource names, "r2" before "r10".  As an order: a path
\* is Equal to itself only, comparing the other way round gives the
\* reverse, and the order is transitive.
C30_NumericCmpTotalOrder ==
    Converting("numeric_cmp") =>
        LET p == conversion.input.self
            q == conversion.input.other
            ord == conversion.out
        IN /\ ord \in {Less, Equal, Greater}
           /\ (p.exporter_name = None /\ q.exporter_name # None) => ord = Less
           /\ (p.exporter_name # None /\ q.exporter_name = None) => ord = Greater
           /\ (p.exporter_name # None /\ q.exporter_name # None
                 /\ p.exporter_name # q.exporter_name) =>
                  ord = NumericSortCmp(p.exporter_name[1], q.exporter_name[1])
           /\ (p.exporter_name = q.exporter_name /\ p.group_name # q.group_name) =>
                  ord = NumericSortCmp(p.group_name, q.group_name)
           /\ (p.exporter_name = q.exporter_name /\ p.group_name = q.group_name) =>
                  ord = NumericSortCmp(p.resource_name, q.resource_name)
           /\ (p.exporter_name = q.exporter_name /\ p.group_name = q.group_name
                 /\ p.resource_name = <<"r", "2">> /\ q.resource_name = <<"r", "1", "0">>) =>
                  ord = Less
           /\ (ord = Equal) <=> (p = q)
           /\ PathNumericCmp(q, p) = Reverse(ord)
           /\ \A r \in Paths :
                  (AtMost(ord) /\ AtMost(PathNumericCmp(q, r))) => AtMost(PathNumericCmp(p, r))
\* Two paths of the same exporter and group, the resources r2 and r10,
\* were compared: Less.
C30_Witness ==
    /\ Converting("numeric_cmp")
    /\ conversion.input.self =
           [exporter_name |-> Some(<<"a">>), group_name |-> <<"b">>,
            resource_name |-> <<"r", "2">>]
    /\ conversion.input.other =
           [exporter_name |-> Some(<<"a">>), group_name |-> <<"b">>,
            resource_name |-> <<"r", "1", "0">>]
    /\ conversion.out = Less

\* What the classifier has to make of an error, told from the events of
\* the iteration and the state before and after it.
Classified(e, events, pre, post) ==
    /\ Fatal(e) => OneCriticalDisconnected(events) /\ post = Disconnected
    /\ Recoverable(e) =>
           /\ Len(events) = 1 /\ events[1].type = "NonCriticalError"
           /\ post = pre
    /\ (~Fatal(e) /\ ~Recoverable(e)) => events = <<>> /\ post = pre
NoReservations(events) == \A i \in 1..Len(events) : events[i].type # "Reservations"

\* C31: a CancelReservation with a non-blank token, handled while
\* Connected, calls cancel_reservation first.  If that call succeeds the
\* handler calls get_reservations at once and emits one Reservations event
\* with what it returned, or has its error classified; if the cancel call
\* fails its error is classified, get_reservations is not called and no
\* Reservations event is emitted.
C31_CancelThenRefresh ==
    (MsgStep("CancelReservation") /\ step.pre.tag = "Connected" /\ ~Blank(step.msg.f1)) =>
        /\ AtSelect
        /\ step.calls # <<>>
        /\ step.calls[1] = [method |-> "cancel_reservation", args |-> <<step.msg.f1>>]
        /\ IF step.results[1].ok
           THEN /\ Len(step.calls) = 2 /\ Len(step.results) = 2
                /\ step.calls[2] = [method |-> "get_reservations", args |-> <<>>]
                /\ IF step.results[2].ok
                   THEN /\ Emitted = <<[type |-> "Reservations",
                                        list |-> step.results[2].value]>>
                        /\ state = step.pre
                   ELSE /\ Classified(step.results[2].error, Emitted, step.pre, state)
                        /\ NoReservations(Emitted)
           ELSE /\ Len(step.calls) = 1 /\ Len(step.results) = 1
                /\ Classified(step.results[1].error, Emitted, step.pre, state)
                /\ NoReservations(Emitted)
\* A cancel that the coordinator refused (InvalidArgument) was reported;
\* the reservations were not fetched.
C31_Witness ==
    /\ MsgStep("CancelReservation")
    /\ step.pre.tag = "Connected"
    /\ step.msg.f1 = <<"a">>
    /\ Len(step.results) = 1
    /\ step.results[1].error = TonicStatus("InvalidArgument")
    /\ ~step.results[1].ok
    /\ state.tag = "Connected"

CallsOf(method) == {i \in 1..Len(step.calls) : step.calls[i].method = method}

\* C32: a tick is serviced only while Connected; it makes exactly one
\* call, get_reservations, and emits one Reservations event with the list
\* returned or what the classifier makes of the error.  An iteration that
\* starts Disconnected services no tick, calls no get_reservations and
\* emits no Reservations event; an inbound frame makes no call and emits
\* no Reservations event; and an iteration emits no more Reservations
\* events than it made get_reservations calls that succeeded.
C32_TicksFetchReservations ==
    /\ step.kind = "tick" =>
          /\ AtSelect
          /\ step.pre.tag = "Connected"
          /\ step.calls = <<[method |-> "get_reservations", args |-> <<>>]>>
          /\ Len(step.results) = 1
          /\ IF step.results[1].ok
             THEN /\ Emitted = <<[type |-> "Reservations", list |-> step.results[1].value]>>
                  /\ state = step.pre
             ELSE /\ Classified(step.results[1].error, Emitted, step.pre, state)
                  /\ NoReservations(Emitted)
    /\ step.pre.tag = "Disconnected" =>
          /\ step.kind # "tick"
          /\ CallsOf("get_reservations") = {}
          /\ NoReservations(Emitted)
    /\ step.kind = "out_msg" => step.calls = <<>> /\ NoReservations(Emitted)
    /\ Cardinality({i \in 1..Len(Emitted) : Emitted[i].type = "Reservations"})
          <= Cardinality({i \in CallsOf("get_reservations") :
                            i <= Len(step.results) /\ step.results[i].ok})
\* A tick was serviced in a session and its list came out as a
\* Reservations event.
C32_Witness ==
    /\ step.kind = "tick"
    /\ step.results = <<Ok(<<"x">>)>>
    /\ output = <<ReceiveReady, ConnectedEv(<<"a">>), ReservationsEv(<<"x">>)>>
    /\ state.tag = "Connected"

\* C33: AddPlaceTag(place, (k, v)) with no blank field, handled while
\* Connected, makes exactly one facade call: set_place_tags for that place
\* with the map {k: v}.  DeletePlaceTag(place, k) makes exactly one:
\* set_place_tags for that place with the map {k: ""}.
C33_TagCommandsSetOneTag ==
    /\ (MsgStep("AddPlaceTag") /\ step.pre.tag = "Connected" /\ ~AnyFieldBlank(step.msg)) =>
          /\ Len(step.calls) = 1
          /\ step.calls[1].method = "set_place_tags"
          /\ step.calls[1].args[1] = step.msg.f1
          /\ step.calls[1].args[2] = {<<step.msg.f2, step.msg.f3>>}
    /\ (MsgStep("DeletePlaceTag") /\ step.pre.tag = "Connected" /\ ~AnyFieldBlank(step.msg)) =>
          /\ Len(step.calls) = 1
          /\ step.calls[1].method = "set_place_tags"
          /\ step.calls[1].args[1] = step.msg.f1
          /\ step.calls[1].args[2] = {<<step.msg.f2, <<>>>>}
          /\ Cardinality(step.calls[1].args[2]) = 1
\* A DeletePlaceTag was handled in a session and its call succeeded.
C33_Witness ==
    /\ MsgStep("DeletePlaceTag")
    /\ step.pre.tag = "Connected"
    /\ step.msg.f1 = <<"a">> /\ step.msg.f2 = <<"a">>
    /\ step.results = <<Ok(<<>>)>>
    /\ Emitted = <<>>


\* --------------------------------------------------------- the GUI lists
\* The event update() handled last
Updating(t) == conversion.op = "update" /\ conversion.event.type = t
\* The order of the names by numerals, written out
NameRank(n) ==
    CASE n = <<"a">> -> 1
      [] n = <<"r", "2">> -> 2
      [] n = <<"r", "1", "0">> -> 3
NamesSorted(l) == \A i, j \in 1..Len(l) : i < j => NameRank(l[i]) <= NameRank(l[j])
\* A place as the list holds it: its acquired resources in order
Held(place) ==
    [place EXCEPT !.acquired_resources =
        IF @ = <<>> THEN <<>> ELSE << <<"r", "2">>, <<"r", "1", "0">> >>]
PlaceNames(l) == [i \in 1..Len(l) |-> l[i].name]
ResourceNames(l) == [i \in 1..Len(l) |-> l[i].path.resource_name]
NoDuplicate(l) == \A i, j \in 1..Len(l) : l[i] = l[j] => i = j
Range(l) == {l[i] : i \in 1..Len(l)}

\* C34: while the shell is Connected, a Place or Resource event leaves
\* exactly one entry with its key, the one of the event, and every other
\* entry as it was, the list sorted (places by name, resources by
\* Path::numeric_cmp); a DeletePlace or DeleteResource event leaves the
\* list without the entry of that key and otherwise as it was; and no two
\* entries of a list ever share their key.
C34_ListsKeyed ==
    [][( /\ conversion'.op = "update"
         /\ app.state = "Connected" )
       => LET ev == conversion'.event IN
          /\ NoDuplicate(PlaceNames(app'.places))
          /\ NoDuplicate([k \in 1..Len(app'.resources) |-> app'.resources[k].path])
          /\ ev.type = "Place" =>
               /\ Range(app'.places) =
                    {p \in Range(app.places) : p.name # ev.value.name}
                        \cup {Held(ev.value)}
               /\ NamesSorted(PlaceNames(app'.places))
               /\ app'.resources = app.resources
          /\ ev.type = "DeletePlace" =>
               /\ app'.places = SelectSeq(app.places, LAMBDA p : p.name # ev.value)
               /\ app'.resources = app.resources
          /\ ev.type = "Resource" =>
               /\ Range(app'.resources) =
                    {r \in Range(app.resources) : r.path # ev.value.path}
                        \cup {ev.value}
               /\ NamesSorted(ResourceNames(app'.resources))
               /\ app'.places = app.places
          /\ ev.type = "DeleteResource" =>
               /\ app'.resources = SelectSeq(app.resources, LAMBDA r : r.path # ev.value)
               /\ app'.places = app.places
      ]_vars
\* A Place event has replaced the last of three places, two resources listed
C34_Witness ==
    /\ Updating("Place")
    /\ app.state = "Connected"
    /\ conversion.event.value.name = <<"r", "1", "0">>
    /\ conversion.event.value.acquired_resources # <<>>
    /\ PlaceNames(app.places) = << <<"a">>, <<"r", "2">>, <<"r", "1", "0">> >>
    /\ app.places[3] = Held(conversion.event.value)
    /\ ResourceNames(app.resources) = << <<"r", "2">>, <<"r", "1", "0">> >>


DataEvents == {"Place", "DeletePlace", "Places", "Resource", "DeleteResource", "Reservations"}
NoLists(a) == a.places = <<>> /\ a.resources = <<>> /\ a.reservations = <<>>

\* C39: a data event (Place, DeletePlace, Places, Resource, DeleteResource,
\* Reservations) handled while the shell is not Connected changes nothing;
\* a Connected event leaves the shell Connected with empty places,
\* resources and reservations, whatever it held; and a shell that is not
\* Connected holds no list.
C39_NoDataOfEarlierSession ==
    [][conversion'.op = "update"
       => LET ev == conversion'.event IN
          /\ (ev.type \in DataEvents /\ app.state # "Connected") => app' = app
          /\ ev.type = "Connected" => app'.state = "Connected" /\ NoLists(app')
          /\ app'.state # "Connected" => NoLists(app')
      ]_vars
\* A Place event handled by a shell still Connecting
C39_Witness ==
    /\ Updating("Place")
    /\ app.state = "Connecting"
    /\ NoLists(app)


\* -------------------------------------------------------- the sync counter
\* C35: a call of SyncId::next hands out the counter as it stood and
\* leaves it one higher, or as it was if it stood at the largest value of
\* its width: the counter is never 0 and never lower than before, the ids
\* handed out never decrease, and from the largest value on every call
\* hands out the largest value.
C35_SyncIdSaturates ==
    [][conversion'.op = "sync"
       => LET ids == conversion'.returned IN
          /\ ids = Append(conversion.returned, conversion.id)
          /\ conversion'.id = IF conversion.id = 2147483647 THEN 2147483647
                              ELSE conversion.id + 1
          /\ conversion'.id # 0
          /\ conversion'.id >= conversion.id
          /\ \A i, j \in 1..Len(ids) : i <= j => ids[i] <= ids[j]
          /\ \A i, j \in 1..Len(ids) : (i <= j /\ ids[i] = 2147483647) => ids[j] = 2147483647
      ]_vars
\* The counter came to the largest value and was called twice more
C35_Witness ==
    /\ conversion.op = "sync"
    /\ Len(conversion.returned) >= 4
    /\ conversion.returned[1] < 2147483647
    /\ conversion.returned[Len(conversion.returned) - 1] = 2147483647
    /\ conversion.returned[Len(conversion.returned)] = 2147483647
    /\ conversion.id = 2147483647


\* ------------------------------------------------- the state and its events
\* The Connected and Disconnected events of a sequence of events
SessionEvents(events) ==
    SelectSeq(events, LAMBDA e : e.type \in {"Connected", "Disconnected"})
\* The session another one than at the start of the iteration
SessionChanged ==
    \/ state.tag # step.pre.tag
    \/ state.tag = "Connected" /\ state.client # step.pre.client

\* C36: with the task at the select, the state is Connected exactly if
\* the last Connected or Disconnected event emitted so far is a
\* Connected, and Disconnected if it is a Disconnected or there is none;
\* and an iteration in which the state went from Disconnected to Connected
\* or back, or to a new session, has emitted exactly one such event, of
\* the kind of the new state.
C36_StateAgreesWithEvents ==
    LET all == SessionEvents(output)
        now == SessionEvents(Emitted)
    IN /\ AtSelect =>
            /\ state.tag = "Connected" <=>
                   (all # <<>> /\ all[Len(all)].type = "Connected")
            /\ state.tag = "Disconnected" <=>
                   (all = <<>> \/ all[Len(all)].type = "Disconnected")
       /\ SessionChanged =>
            /\ Len(now) = 1
            /\ now[1].type = state.tag
\* A session lost to a failed call of the interval, back at the select
C36_Witness ==
    /\ AtSelect
    /\ step.kind = "tick"
    /\ step.pre.tag = "Connected"
    /\ state = Disconnected
    /\ SessionEvents(Emitted) = Emitted
    /\ Len(SessionEvents(output)) = 2


\* ------------------------------------------------- the end of the stream
\* The session of `state` lost or replaced by the step
SessionGone ==
    state'.tag # "Connected" \/ state'.client # state.client
\* The iteration that ends with the step: a Connect or a Disconnect, or
\* one whose facade call, for a command or for the interval, failed with
\* an error that ends the session.
EndsSession ==
    \/ step'.kind = "msg" /\ step'.msg.type \in {"Connect", "Disconnect"}
    \/ /\ step'.kind \in {"msg", "tick"}
       /\ step'.results # <<>>
       /\ ~step'.results[Len(step'.results)].ok
       /\ Fatal(step'.results[Len(step'.results)].error)

\* C37: the end of the inbound half of a Connected session emits no event
\* and leaves the session, the channel and the frames sent as they are;
\* from then on no item is read from that stream, and the session is lost
\* or replaced only by a Connect or a Disconnect or by a facade call, of a
\* command or of the interval, that failed critically.
C37_StreamEndKeepsSession ==
    [][/\ (step' # step /\ step'.kind = "stream_end") =>
            /\ state.tag = "Connected"
            /\ state' = [state EXCEPT !.stream_done = TRUE]
            /\ UNCHANGED <<output, queue, sent, received, pending, pc>>
       /\ (state.tag = "Connected" /\ state.stream_done) =>
            /\ received'[state.client_out_stream] = received[state.client_out_stream]
            /\ SessionGone => EndsSession
            /\ ~SessionGone => state'.stream_done
      ]_vars
\* The stream of a session ended and a call of the interval succeeded after
C37_Witness ==
    /\ AtSelect
    /\ state.tag = "Connected"
    /\ state.stream_done
    /\ step.kind = "tick"
    /\ step.pre.stream_done
    /\ OneEvent("Reservations")


\* ------------------------------------------------------------------ Sync
\* C40: a Sync handled while Connected puts exactly one Sync frame, with
\* the id the counter stood at, on the outbound half, or none if the
\* receiver of that half is gone; either way the counter is one higher,
\* no event is emitted, no facade call is made, and the session stays
\* Connected with the handles it had.
C40_SyncFrameOnly ==
    (MsgStep("Sync") /\ step.pre.tag = "Connected") =>
        LET frames == sent[step.pre.client_in_sender] IN
        /\ AtSelect
        /\ Emitted = <<>>
        /\ step.calls = <<>>
        /\ state.tag = "Connected"
        /\ state.client = step.pre.client
        /\ state.client_in_sender = step.pre.client_in_sender
        /\ state.client_out_stream = step.pre.client_out_stream
        /\ state.stream_done = step.pre.stream_done
        /\ state.sync_id = step.pre.sync_id + 1
        /\ ~state.sender_closed =>
             /\ frames[Len(frames)] = [type |-> "Sync", id |-> step.pre.sync_id]
             /\ Cardinality({i \in 1..Len(frames) : frames[i].type = "Sync"})
                    = step.pre.sync_id
        /\ state.sender_closed =>
             Cardinality({i \in 1..Len(frames) : frames[i].type = "Sync"})
                    < step.pre.sync_id
\* A Sync whose send failed: the counter moved, the frames are those of
\* the handshake
C40_Witness ==
    /\ MsgStep("Sync")
    /\ step.pre.tag = "Connected"
    /\ ~step.pre.sender_closed
    /\ state.sender_closed
    /\ state.sync_id = 3
    /\ Len(sent[state.client_in_sender]) = 4


\* ------------------------------------------------------------- liveness
\* C38: a shell that is Connecting eventually is not: it becomes
\* Connected or NotConnected, with the session task scheduled fairly and
\* every event delivered.
C38_ConnectingEnds == (app.state = "Connecting") ~> (app.state # "Connecting")

=============================================================================
